------------------------- MODULE LocalProcessProofs -------------------------
(***************************************************************************)
(* What TLAPS proves about the process adapters, for any number of         *)
(* requests, strangers, process numbers, threads and deaths of the daemon: *)
(* their answers are true, their kills hit the target or nobody, and only  *)
(* a crash before the first record loses a process.                        *)
(*                                                                         *)
(* The inductive invariant says who may reap a child, hence whose number   *)
(* cannot be recycled, at every step of every call.                        *)
(***************************************************************************)
EXTENDS LocalProcess, TLAPS

----------------------------------------------------------------------------
(* The inductive invariant *)

Places == {"idle", "prepare", "spawn", "locate", "birth", "look", "relocate", "stdin",
           "parse", "lookup", "open", "stat", "environ", "pinned", "wait", "return"}

Calls == [op : Operations \cup {"idle"}, req : Requests \cup {Nobody}, at : Places,
          birth : Births \cup {NoBirth}, fd : Instances \cup {Nobody}, token : BOOLEAN,
          child : BOOLEAN, running : BOOLEAN, source : Handles,
          ans : {"none", "running", "ended", "unknown", "err"}, hint : Handles]

Processes == [pid : Pids \cup {Nobody}, birth : Births \cup {NoBirth},
              state : {"unborn", "running", "zombie", "gone"}]

Types ==
    /\ proc \in [Instances -> Processes]
    /\ orphan \subseteq Requests
    /\ live \in [Kinds -> [Pids -> Requests \cup {Nobody}]]
    /\ record \in [Requests -> Handles]
    /\ handle \in [Requests -> Handles]
    /\ asked \subseteq Requests
    /\ call \in [Callers -> Calls]
    /\ jailed \subseteq Requests
    /\ tick \in Births
    /\ crashes \in Nat

Unborn(i) == proc[i].state = "unborn"

\* Somebody knows of a process of the request.
Traced(r) == handle[r] # NoHandle \/ record[r] # NoHandle \/ r \in orphan

\* The operating system and what is durable about it.
World ==
    /\ \A i \in Instances : ~Unborn(i) => proc[i].pid \in Pids /\ proc[i].birth \in Births
    /\ \A i, j \in Instances : Present(i) /\ Present(j) /\ proc[i].pid = proc[j].pid => i = j
    /\ \A r \in Requests : Traced(r) => ~Unborn(r)
    /\ \A r \in Requests : r \notin asked => Unborn(r)

\* A live map has the child of the request.
Kept(r) == \E k \in Kinds, p \in Pids : live[k][p] = r

\* What it keeps is where it belongs; only the jailed adapter keeps what it has reaped.
KeptWell(r) ==
    /\ \A k \in Kinds, p \in Pids : live[k][p] = r => k = KindOf(r) /\ p = PidOf(r)
    /\ Kept(r) => /\ ~Unborn(r) /\ r \notin orphan
                  /\ r \notin jailed => Present(r)

\* A start has its child to itself until it returns.
StartRow(x) ==
    /\ x.at \in {"prepare", "spawn", "locate", "birth", "look", "relocate", "stdin", "return"}
    /\ ~x.child
    /\ handle[x.req] = NoHandle
    /\ x.at # "return" => x.req \notin orphan /\ ~Kept(x.req)
    /\ x.at \in {"prepare", "spawn"} => Unborn(x.req)
    /\ x.at \in {"locate", "birth", "look", "stdin"} => Present(x.req)
    /\ x.at = "look" => x.req \in jailed
    /\ x.at = "relocate" => IF x.req \in jailed /\ ~x.running THEN proc[x.req].state = "gone"
                            ELSE Present(x.req)
    /\ x.at \in {"birth", "look", "relocate", "stdin"} => record[x.req] # NoHandle
    /\ x.at = "return" /\ x.hint = NoHandle => Unborn(x.req)

\* A call that took a child out of the live map has it to itself; a descriptor that may
\* be acted on is that of the request's process.
ControlRow(x) ==
    /\ x.at \in {"parse", "lookup", "open", "stat", "environ", "pinned", "wait", "return"}
    /\ x.at \notin {"parse", "return"} => ~Unborn(x.req)
    /\ x.at \in {"parse", "lookup"} => x.token
    /\ x.at \in {"parse", "lookup", "environ", "return"} => ~x.child
    /\ x.child => /\ x.op \in {"terminate", "collect"} /\ ~x.token
                  /\ x.req \notin orphan /\ ~Kept(x.req)
                  /\ IF x.req \in jailed THEN x.at = "wait" ELSE Present(x.req)
    /\ x.at \in {"open", "stat"} /\ x.op # "interrupt" => x.token \/ x.child
    /\ x.at \in {"stat", "environ"} /\ (Alive(x.req) \/ x.child) => x.fd = x.req
    /\ x.at = "pinned" /\ x.op # "interrupt" => x.fd = x.req
    /\ x.at = "wait" /\ ~x.child => x.fd = x.req

Row(x) ==
    /\ x.op = "idle" <=> x.at = "idle"
    /\ x.op = "idle" => ~x.child
    /\ x.at # "return" => x.ans = "none"
    /\ x.op # "idle" =>
          /\ x.req \in asked
          /\ x.op = "start" => StartRow(x)
          /\ x.op # "start" => ControlRow(x)
          /\ x.ans = "ended" => proc[x.req].state \in {"zombie", "gone"}
          /\ x.hint # NoHandle => ~Unborn(x.req)

\* Two calls for one request are no starts, and one of them at most has the child.
Apart(x, y) ==
    x.op # "idle" /\ y.op # "idle" /\ x.req = y.req =>
        x.op # "start" /\ y.op # "start" /\ ~(x.child /\ y.child)

AdapterInv ==
    /\ Types
    /\ World
    /\ \A r \in Requests : KeptWell(r)
    /\ \A c \in Callers : Row(call[c])
    /\ \A c, d \in Callers : c # d => Apart(call[c], call[d])

----------------------------------------------------------------------------
(* Facts about the helpers *)

\* Who has a number.
LEMMA OccupantFacts ==
    ASSUME World, NEW p
    PROVE  /\ Occupant(p) = Nobody => \A i \in Instances : ~(Present(i) /\ proc[i].pid = p)
           /\ Occupant(p) # Nobody =>
                 /\ Occupant(p) \in Instances /\ Present(Occupant(p))
                 /\ proc[Occupant(p)].pid = p
           /\ \A i \in Instances : Present(i) /\ proc[i].pid = p => Occupant(p) = i
<1>1. CASE \E i \in Instances : Present(i) /\ proc[i].pid = p
    <2>1. Occupant(p) = CHOOSE i \in Instances : Present(i) /\ proc[i].pid = p
        BY <1>1, Zenon DEF Occupant
    <2>2. Occupant(p) \in Instances /\ Present(Occupant(p)) /\ proc[Occupant(p)].pid = p
        BY <1>1, <2>1, Zenon
    <2>3. Occupant(p) # Nobody
        BY Zenon, <2>2, ProcessAssumption
    <2>4. \A i \in Instances : Present(i) /\ proc[i].pid = p => Occupant(p) = i
        BY Zenon, <2>2 DEF World
    <2> QED
        BY Zenon, <2>2, <2>3, <2>4
<1>2. CASE ~\E i \in Instances : Present(i) /\ proc[i].pid = p
    BY <1>2, Zenon DEF Occupant
<1> QED
    BY Zenon, <1>1, <1>2

LEMMA HandleFacts ==
    /\ NoHandle \in Handles /\ NoBirth \notin Births
    /\ \A b \in Births \cup {NoBirth} : /\ Locator(b) \in Handles /\ Locator(b) # NoHandle
                                        /\ Pin(b) \in Handles /\ Pin(b) # NoHandle
BY ProcessAssumption DEF Handles, NoHandle, Locator, Pin, Births, NoBirth

LEMMA IdleFacts ==
    /\ Idle \in Calls /\ Row(Idle)
    /\ Idle.op = "idle" /\ Idle.child = FALSE
<1>1. Idle \in Calls
    BY Zenon, HandleFacts DEF Idle, Calls, Places
<1> QED
    BY Zenon, <1>1 DEF Idle, Row

\* Goto moves the call on.
LEMMA GotoFacts ==
    ASSUME Types, NEW c \in Callers, NEW at \in Places, Goto(c, at)
    PROVE  /\ call' \in [Callers -> Calls]
           /\ \A d \in Callers : d # c => call'[d] = call[d]
           /\ call'[c] \in Calls
           /\ call'[c].op = call[c].op /\ call'[c].req = call[c].req /\ call'[c].at = at
           /\ call'[c].birth = call[c].birth /\ call'[c].fd = call[c].fd
           /\ call'[c].token = call[c].token /\ call'[c].child = call[c].child
           /\ call'[c].running = call[c].running
           /\ call'[c].ans = call[c].ans /\ call'[c].hint = call[c].hint
<1>1. call' = [call EXCEPT ![c].at = at] /\ call \in [Callers -> Calls]
    BY Zenon DEF Goto, Types
<1>2. call' = [call EXCEPT ![c] = call'[c]] /\ call'[c] = [call[c] EXCEPT !.at = at]
    BY Zenon, <1>1
<1>3. call'[c] \in Calls
    BY <1>1, <1>2 DEF Calls
<1> QED
    BY Zenon, <1>1, <1>2, <1>3 DEF Calls

\* Answer ends it with a result.
LEMMA AnswerFacts ==
    ASSUME Types, NEW c \in Callers, NEW ans \in {"none", "running", "ended", "unknown", "err"},
           NEW hint \in Handles, Answer(c, ans, hint)
    PROVE  /\ call' \in [Callers -> Calls]
           /\ \A d \in Callers : d # c => call'[d] = call[d]
           /\ call'[c] \in Calls
           /\ call'[c].op = call[c].op /\ call'[c].req = call[c].req
           /\ call'[c].at = "return" /\ call'[c].child = FALSE
           /\ call'[c].ans = ans /\ call'[c].hint = hint
<1> DEFINE row == [Idle EXCEPT !.op = call[c].op, !.req = call[c].req, !.at = "return",
                               !.ans = ans, !.hint = hint]
<1>1. call' = [call EXCEPT ![c] = row] /\ call \in [Callers -> Calls]
    BY Zenon DEF Answer, Types
<1>2. call[c].op \in Operations \cup {"idle"} /\ call[c].req \in Requests \cup {Nobody}
    BY Zenon, <1>1 DEF Calls
<1>3. row \in Calls
    BY Zenon, <1>2, HandleFacts DEF Idle, Calls, Places
<1>4. /\ row.op = call[c].op /\ row.req = call[c].req
      /\ row.at = "return" /\ row.child = FALSE /\ row.ans = ans /\ row.hint = hint
    BY Zenon DEF Idle
<1> HIDE DEF row
<1> QED
    BY Zenon, <1>1, <1>3, <1>4

\* Where a call is tells whether it is a start.
LEMMA PlaceFacts ==
    ASSUME NEW x \in Calls, Row(x)
    PROVE  /\ x.at \in {"prepare", "spawn", "locate", "birth", "look", "relocate", "stdin"} =>
                 x.op = "start" /\ StartRow(x)
           /\ x.at \in {"parse", "lookup", "open", "stat", "environ", "pinned", "wait"} =>
                 x.op \notin {"idle", "start"} /\ ControlRow(x)
           /\ x.at # "idle" => x.op # "idle" /\ x.req \in asked
BY Zenon DEF Row, StartRow, ControlRow, Calls

----------------------------------------------------------------------------
(* What keeps the invariant *)

\* A process only gets older, and keeps its number and its birth.
Moves(i) ==
    ~Unborn(i) => /\ proc'[i].pid = proc[i].pid /\ proc'[i].birth = proc[i].birth
                  /\ ~Unborn(i)'
                  /\ Alive(i)' => Alive(i)
                  /\ Present(i)' => Present(i)

\* A step of c for r leaves everybody else alone.
Frame(c, r) ==
    /\ \A d \in Callers : d # c => call'[d] = call[d]
    /\ \A i \in Instances : i # r => proc'[i] = proc[i]
    /\ \A q \in Requests : q # r =>
          /\ record'[q] = record[q] /\ handle'[q] = handle[q]
          /\ q \in orphan' <=> q \in orphan
          /\ \A k \in Kinds, p \in Pids : live'[k][p] = q => live[k][p] = q
    /\ asked' = asked /\ jailed' = jailed

\* Only a start gives birth, records and lets go; only who has the child reaps it.
Own(c, r) ==
    /\ Moves(r)
    /\ call[c].op # "start" =>
          /\ Unborn(r) => Unborn(r)'
          /\ r \in orphan' <=> r \in orphan
          /\ ~call[c].child => (Kept(r)' => Kept(r))
          /\ ~call[c].child /\ ~Kept(r) => proc'[r] = proc[r]

\* The calls of others for another request are not touched.
LEMMA OtherRequest ==
    ASSUME AdapterInv, Types', NEW c \in Callers, NEW r \in Requests, Frame(c, r),
           NEW x \in Calls, Row(x), x.op # "idle" => x.req # r
    PROVE  Row(x)'
<1>1. CASE x.op = "idle"
    BY Zenon, <1>1 DEF Row
<1>2. CASE x.op # "idle"
    <2>1. PICK q \in Requests : q = x.req /\ q # r
        BY Zenon, <1>2 DEF Row, AdapterInv, Types
    <2>2. /\ proc'[q] = proc[q] /\ record'[q] = record[q] /\ handle'[q] = handle[q]
          /\ q \in orphan' <=> q \in orphan
          /\ asked' = asked /\ jailed' = jailed
        BY Zenon, <2>1 DEF Frame, Instances
    <2>3. Kept(q)' => Kept(q)
        BY Zenon, <2>1 DEF Frame, Kept
    <2>4. (Unborn(q)' <=> Unborn(q)) /\ (Present(q)' <=> Present(q)) /\ (Alive(q)' <=> Alive(q))
        BY Zenon, <2>2 DEF Unborn, Present, Alive
    <2>5. StartRow(x) => StartRow(x)'
        BY Zenon, <2>1, <2>2, <2>3, <2>4 DEF StartRow
    <2>6. ControlRow(x) => ControlRow(x)'
        BY Zenon, <2>1, <2>2, <2>3, <2>4 DEF ControlRow
    <2> QED
        BY Zenon, <1>2, <2>1, <2>2, <2>4, <2>5, <2>6 DEF Row
<1> QED
    BY Zenon, <1>1, <1>2

\* The control calls of others for the same request go on.
LEMMA SameRequest ==
    ASSUME AdapterInv, Types', NEW c \in Callers, NEW r \in Requests, Frame(c, r), Own(c, r),
           call[c].op # "start", NEW x \in Calls, Row(x), x.op \notin {"idle", "start"},
           x.req = r, ~(x.child /\ call[c].child)
    PROVE  Row(x)'
<1>1. ControlRow(x)
    BY Zenon DEF Row
<1>2. /\ Moves(r) /\ (r \in orphan' <=> r \in orphan)
      /\ asked' = asked /\ jailed' = jailed
    BY Zenon DEF Frame, Own
<1>3. x.child => ~Kept(r)' /\ proc'[r] = proc[r]
    BY Zenon, <1>1 DEF Own, ControlRow
<1>4. ControlRow(x)'
    BY Zenon, <1>1, <1>2, <1>3 DEF ControlRow, Moves, Present, Alive
<1>5. x.ans = "ended" => proc'[r].state \in {"zombie", "gone"}
    <2>1. proc[r].state \in {"zombie", "gone"} => ~Unborn(r)' /\ ~Alive(r)'
        BY Zenon, <1>2 DEF Moves, Unborn, Alive
    <2>2. proc'[r].state \in {"unborn", "running", "zombie", "gone"}
        BY Zenon DEF Types, Processes, Instances
    <2> QED
        BY Zenon, <2>1, <2>2 DEF Row, Unborn, Alive
<1>6. x.hint # NoHandle => ~Unborn(r)'
    BY Zenon, <1>2 DEF Row, Moves
<1> QED
    BY Zenon, <1>2, <1>4, <1>5, <1>6 DEF Row

\* A step of a call keeps the invariant if it keeps its own part of it.
LEMMA Acts ==
    ASSUME AdapterInv, Types', World', NEW c \in Callers, NEW r \in Requests,
           call[c].op # "idle", call[c].req = r, Frame(c, r), Own(c, r), KeptWell(r)',
           Row(call[c])', call'[c].op # "idle" => call'[c].req = r,
           call'[c].op = "start" => call[c].op = "start",
           call'[c].child => call[c].child \/ Kept(r)
    PROVE  AdapterInv'
<1>1. \A d \in Callers : call[d] \in Calls /\ Row(call[d])
    BY Zenon DEF AdapterInv, Types
<1>2. ASSUME NEW d \in Callers, d # c
      PROVE  Row(call[d])' /\ Apart(call'[c], call'[d]) /\ Apart(call'[d], call'[c])
    <2>1. PICK x \in Calls : x = call[d]
        BY Zenon, <1>1
    <2>2. call'[d] = x /\ Row(x) /\ Apart(call[c], x)
        BY Zenon, <1>1, <1>2, <2>1 DEF Frame, AdapterInv
    <2>3. Row(x)'
        <3>1. CASE x.op # "idle" => x.req # r
            BY Zenon, <2>2, <3>1, OtherRequest
        <3>2. CASE x.op # "idle" /\ x.req = r
            BY Zenon, <2>2, <3>2, SameRequest DEF Apart
        <3> QED
            BY Zenon, <3>1, <3>2
    <2>4. Apart(call'[c], x) /\ Apart(x, call'[c])
        <3>1. x.op # "idle" /\ x.op # "start" /\ x.child => ~Kept(x.req)
            BY Zenon, <2>2 DEF Row, ControlRow
        <3> QED
            BY Zenon, <2>2, <3>1 DEF Apart
    <2> QED
        BY Zenon, <2>2, <2>3, <2>4
<1>3. \A d \in Callers : Row(call[d])'
    BY Zenon, <1>2
<1>4. \A d, e \in Callers : d # e => Apart(call'[d], call'[e])
    <2> SUFFICES ASSUME NEW d \in Callers, NEW e \in Callers, d # e
                 PROVE  Apart(call'[d], call'[e])
        BY Zenon
    <2>1. CASE d = c \/ e = c
        BY Zenon, <1>2, <2>1
    <2>2. CASE d # c /\ e # c
        BY Zenon, <2>2 DEF Frame, AdapterInv
    <2> QED
        BY Zenon, <2>1, <2>2
<1>5. ASSUME NEW q \in Requests, q # r
      PROVE  KeptWell(q)'
    <2>1. KeptWell(q)
        BY Zenon DEF AdapterInv
    <2>2. /\ proc'[q] = proc[q] /\ (q \in orphan' <=> q \in orphan) /\ jailed' = jailed
          /\ \A k \in Kinds, p \in Pids : live'[k][p] = q => live[k][p] = q
        BY Zenon, <1>5 DEF Frame, Instances
    <2> QED
        BY Zenon, <2>1, <2>2 DEF KeptWell, Kept, KindOf, PidOf, Unborn, Present
<1>6. \A q \in Requests : KeptWell(q)'
    BY Zenon, <1>5
<1> QED
    BY Zenon, <1>3, <1>4, <1>6 DEF AdapterInv

\* A step that changes nothing but its call.
LEMMA Thinks ==
    ASSUME AdapterInv, NEW c \in Callers,
           UNCHANGED <<proc, orphan, live, record, handle, asked, jailed, tick, crashes>>,
           call' \in [Callers -> Calls], \A d \in Callers : d # c => call'[d] = call[d],
           call[c].op # "idle", call'[c].op # "idle" => call'[c].req = call[c].req,
           call'[c].op = "start" => call[c].op = "start",
           call'[c].child => call[c].child,
           NEW x, x = call'[c], Row(x)
    PROVE  AdapterInv'
<1>1. Types' /\ World'
    BY Zenon DEF AdapterInv, Types, World, Traced, Unborn, Present
<1>2. PICK r \in Requests : r = call[c].req
    BY Zenon DEF AdapterInv, Types, Row
<1>3. KeptWell(r)'
    BY DEF AdapterInv, KeptWell, Kept, KindOf, PidOf, Unborn, Present
<1>4. Frame(c, r)
    BY Zenon DEF Frame
<1>5. Own(c, r)
    BY Zenon DEF Own, Moves, Unborn, Alive, Present, Kept
<1>6. Row(x)'
    BY Zenon DEF Row, StartRow, ControlRow, Unborn, Present, Alive, Kept
<1>7. Row(call[c])'
    BY Zenon, <1>6
<1> QED
    BY Zenon, <1>1, <1>2, <1>3, <1>4, <1>5, <1>7, Acts

\* What the system does to processes keeps the invariant if it reaps no child that
\* somebody has.
LEMMA SystemStep ==
    ASSUME AdapterInv, Types', World',
           UNCHANGED <<call, live, orphan, record, handle, asked, jailed>>,
           \A r \in Requests : /\ Moves(r) /\ (Unborn(r) => Unborn(r)')
                               /\ r \notin orphan => (Present(r) => Present(r)')
    PROVE  AdapterInv'
<1>1. ASSUME NEW r \in Requests PROVE KeptWell(r)'
    <2>1. KeptWell(r) /\ Moves(r) /\ (Kept(r)' <=> Kept(r))
        BY Zenon DEF AdapterInv, Kept
    <2>2. Kept(r) => ~Unborn(r)' /\ proc'[r].pid = proc[r].pid /\ r \notin orphan'
        BY <2>1, Zenon DEF KeptWell, Moves
    <2>3. Kept(r) /\ r \notin jailed' => Present(r)'
        BY <2>1, Zenon DEF KeptWell
    <2>4. \A k \in Kinds, p \in Pids :
             live'[k][p] = r => Kept(r) /\ k = KindOf(r)' /\ p = proc[r].pid
        BY <2>1, Zenon DEF KeptWell, KindOf, PidOf, Kept
    <2> QED
        BY <2>1, <2>2, <2>3, <2>4, Zenon DEF KeptWell, PidOf
<1>2. ASSUME NEW c \in Callers PROVE Row(call[c])'
    <2>1. PICK x \in Calls : x = call[c] /\ Row(x)
        BY Zenon DEF AdapterInv, Types
    <2>2. CASE x.op = "idle"
        BY Zenon, <2>1, <2>2 DEF Row
    <2>3. CASE x.op # "idle"
        <3>1. PICK q \in Requests : q = x.req
            BY Zenon, <2>1, <2>3 DEF Row, AdapterInv, Types
        <3>2. /\ Moves(q) /\ (Unborn(q) => Unborn(q)')
              /\ q \notin orphan => (Present(q) => Present(q)')
              /\ Kept(q)' <=> Kept(q)
            BY Zenon DEF Kept
        <3>3. proc'[q].state \in {"unborn", "running", "zombie", "gone"}
            BY Zenon DEF Types, Processes, Instances
        <3>4. /\ proc[q].state = "gone" => proc'[q].state = "gone"
              /\ proc[q].state \in {"zombie", "gone"} => proc'[q].state \in {"zombie", "gone"}
              /\ ~Unborn(q) => ~Unborn(q)' /\ (Alive(q)' => Alive(q))
            BY Zenon, <3>2, <3>3 DEF Moves, Unborn, Alive, Present
        <3>5. StartRow(x) => StartRow(x)'
            BY Zenon, <3>1, <3>2, <3>4 DEF StartRow
        <3>6. ControlRow(x) => ControlRow(x)'
            BY Zenon, <3>1, <3>2, <3>4 DEF ControlRow
        <3>7. Row(x)'
            BY Zenon, <2>1, <2>3, <3>1, <3>4, <3>5, <3>6 DEF Row
        <3> QED
            BY Zenon, <2>1, <3>7
    <2> QED
        BY Zenon, <2>2, <2>3
<1>3. \A c, d \in Callers : c # d => Apart(call'[c], call'[d])
    BY Zenon DEF AdapterInv
<1> QED
    BY Zenon, <1>1, <1>2, <1>3 DEF AdapterInv

\* The world is kept when nobody is born.
LEMMA WorldKept ==
    ASSUME AdapterInv, Types', \A i \in Instances : Moves(i) /\ (Unborn(i) => proc'[i] = proc[i]),
           \A r \in Requests : Traced(r)' => ~Unborn(r),
           asked \subseteq asked'
    PROVE  World'
<1>1. World
    BY Zenon DEF AdapterInv
<1>2. \A i \in Instances : ~Unborn(i)' => ~Unborn(i)
    BY Zenon DEF Unborn
<1>3. \A i \in Instances : ~Unborn(i)' => proc'[i].pid \in Pids /\ proc'[i].birth \in Births
    BY Zenon, <1>1, <1>2 DEF World, Moves
<1>4. \A i \in Instances : Present(i)' => Present(i) /\ proc'[i].pid = proc[i].pid
    BY Zenon DEF Moves, Present, Unborn
<1>5. \A i, j \in Instances : Present(i)' /\ Present(j)' /\ proc'[i].pid = proc'[j].pid => i = j
    BY Zenon, <1>1, <1>4 DEF World
<1>6. \A r \in Requests : r \in Instances /\ Moves(r) /\ (Unborn(r) => Unborn(r)')
    BY Zenon DEF Instances, Unborn
<1>7. \A r \in Requests : Traced(r)' => ~Unborn(r)'
    BY Zenon, <1>6 DEF Moves
<1>8. \A r \in Requests : r \notin asked' => Unborn(r)'
    BY Zenon, <1>1, <1>6 DEF World
<1> QED
    BY Zenon, <1>3, <1>5, <1>7, <1>8 DEF World

\* What a step of a call may do to processes, live maps and records.
Work(c, r) ==
    /\ \/ proc' = proc
       \/ /\ proc' = Reaped(r) /\ ~Unborn(r)
          /\ call[c].op = "start" \/ call[c].child \/ Kept(r)
    /\ \/ orphan' = orphan
       \/ orphan' = orphan \cup {r} /\ call[c].op = "start" /\ ~Unborn(r)
    /\ \/ live' = live /\ (Kept(r) => proc' = proc /\ orphan' = orphan)
       \/ /\ live' = [live EXCEPT ![KindOf(r)][PidOf(r)] = r]
          /\ call[c].op = "start" \/ call[c].child
          /\ ~Unborn(r) /\ r \notin orphan /\ proc' = proc /\ orphan' = orphan
          /\ ~Kept(r) /\ (r \notin jailed => Present(r))
       \/ /\ live' = [live EXCEPT ![KindOf(r)][PidOf(r)] = Nobody]
          /\ Kept(r) /\ orphan' = orphan
    /\ \/ record' = record
       \/ /\ \E b \in Births \cup {NoBirth} : record' = [record EXCEPT ![r] = Locator(b)]
          /\ call[c].op = "start" /\ ~Unborn(r)
    /\ UNCHANGED <<handle, asked, jailed, tick, crashes>>

\* What it may do to the call.
CallStep(c, r) ==
    /\ call' \in [Callers -> Calls]
    /\ \A d \in Callers : d # c => call'[d] = call[d]
    /\ call'[c].op # "idle" => call'[c].req = r
    /\ call'[c].op = "start" => call[c].op = "start"
    /\ call'[c].child => call[c].child \/ Kept(r)
    /\ Row(call[c])'

\* Such a step keeps the invariant.
LEMMA Works ==
    ASSUME AdapterInv, NEW c \in Callers, NEW r \in Requests,
           call[c].op # "idle", call[c].req = r, Work(c, r), CallStep(c, r)
    PROVE  AdapterInv'
<1>1. Types /\ World /\ KeptWell(r) /\ r \in Instances
    BY Zenon DEF AdapterInv, Instances
<1>2. UNCHANGED <<handle, asked, jailed, tick, crashes>>
    BY Zenon DEF Work
<1>3. /\ proc' \in [Instances -> Processes]
      /\ \A i \in Instances : i # r => proc'[i] = proc[i]
      /\ proc'[r] # proc[r] => /\ ~Unborn(r) /\ proc'[r].state = "gone"
                               /\ call[c].op = "start" \/ call[c].child \/ Kept(r)
      /\ proc'[r].pid = proc[r].pid /\ proc'[r].birth = proc[r].birth
    <2>1. CASE proc' = proc
        BY Zenon, <1>1, <2>1 DEF Types
    <2>2. CASE proc' # proc
        BY <1>1, <2>2 DEF Work, Reaped, Types, Processes
    <2> QED
        BY Zenon, <2>1, <2>2
<1>4. \A i \in Instances : Moves(i) /\ (Unborn(i) => proc'[i] = proc[i])
    <2>1. Moves(r)
        BY Zenon, <1>3 DEF Moves, Unborn, Alive, Present
    <2>2. Unborn(r) => proc'[r] = proc[r]
        BY <1>3, Zenon
    <2>3. ASSUME NEW i \in Instances, i # r
          PROVE  Moves(i) /\ (Unborn(i) => proc'[i] = proc[i])
        <3>1. proc'[i] = proc[i]
            BY <1>3, <2>3, Zenon
        <3> QED
            BY <3>1, Zenon DEF Moves, Unborn, Alive, Present
    <2> QED
        BY <2>1, <2>2, <2>3, Zenon
<1>5. /\ record' \in [Requests -> Handles]
      /\ \A q \in Requests : q # r => record'[q] = record[q]
      /\ record'[r] # record[r] => ~Unborn(r)
    <2>1. CASE record' = record
        BY Zenon, <1>1, <2>1 DEF Types
    <2>2. CASE record' # record
        BY <1>1, <2>2, HandleFacts DEF Work, Types
    <2> QED
        BY Zenon, <2>1, <2>2
<1>6. /\ live' \in [Kinds -> [Pids -> Requests \cup {Nobody}]]
      /\ \A q \in Requests : q # r =>
            \A k \in Kinds, p \in Pids : live'[k][p] = q => live[k][p] = q
      /\ KeptWell(r)'
      /\ Kept(r)' /\ ~Kept(r) => call[c].op = "start" \/ call[c].child
    <2>k. KindOf(r) \in Kinds /\ KindOf(r)' = KindOf(r) /\ PidOf(r)' = PidOf(r)
        BY Zenon, <1>2, <1>3 DEF KindOf, Kinds, PidOf
    <2>p. ~Unborn(r) => PidOf(r) \in Pids
        BY Zenon, <1>1 DEF World, PidOf
    <2>t. live \in [Kinds -> [Pids -> Requests \cup {Nobody}]]
        BY Zenon, <1>1 DEF Types
    <2>w. \A k \in Kinds, p \in Pids : live[k][p] = r => k = KindOf(r) /\ p = PidOf(r)
        BY Zenon, <1>1 DEF KeptWell
    <2>1. CASE live' = live /\ (Kept(r) => proc' = proc /\ orphan' = orphan)
        BY Zenon, <1>1, <1>2, <2>1, <2>k, <2>t DEF KeptWell, Kept, Unborn, Present
    <2>2. CASE /\ live' = [live EXCEPT ![KindOf(r)][PidOf(r)] = r]
               /\ call[c].op = "start" \/ call[c].child
               /\ ~Unborn(r) /\ r \notin orphan /\ proc' = proc /\ orphan' = orphan
               /\ ~Kept(r) /\ (r \notin jailed => Present(r))
        <3>1. /\ live' \in [Kinds -> [Pids -> Requests \cup {Nobody}]]
              /\ \A k \in Kinds, p \in Pids :
                    live'[k][p] = IF k = KindOf(r) /\ p = PidOf(r) THEN r ELSE live[k][p]
            BY Zenon, <2>2, <2>k, <2>p, <2>t
        <3>2. KeptWell(r)'
            BY <1>2, <2>2, <2>k, <2>w, <3>1 DEF KeptWell, Unborn, Present
        <3> QED
            BY <2>2, <3>1, <3>2
    <2>3. CASE /\ live' = [live EXCEPT ![KindOf(r)][PidOf(r)] = Nobody]
               /\ Kept(r) /\ orphan' = orphan
        <3>1. /\ live' \in [Kinds -> [Pids -> Requests \cup {Nobody}]]
              /\ \A k \in Kinds, p \in Pids :
                    live'[k][p] = IF k = KindOf(r) /\ p = PidOf(r) THEN Nobody ELSE live[k][p]
            BY Zenon, <1>1, <2>3, <2>k, <2>p, <2>t DEF KeptWell
        <3>2. Nobody \notin Requests
            BY Zenon, ProcessAssumption DEF Instances
        <3>3. ~Kept(r)' /\ \A k \in Kinds, p \in Pids : live'[k][p] # r
            BY <2>w, <3>1, <3>2 DEF Kept
        <3> QED
            BY <3>1, <3>2, <3>3 DEF KeptWell
    <2> QED
        BY Zenon, <2>1, <2>2, <2>3 DEF Work
<1>7. /\ orphan' \subseteq Requests
      /\ \A q \in Requests : q # r => (q \in orphan' <=> q \in orphan)
      /\ call[c].op # "start" => orphan' = orphan
      /\ r \in orphan' => r \in orphan \/ ~Unborn(r)
    BY Zenon, <1>1 DEF Work, Types
<1>8. Types'
    BY Zenon, <1>1, <1>2, <1>3, <1>5, <1>6, <1>7 DEF Types, CallStep
<1>9. World'
    <2>1. \A q \in Requests : Traced(q)' => ~Unborn(q)
        BY Zenon, <1>1, <1>2, <1>5, <1>7 DEF World, Traced
    <2> QED
        BY Zenon, <1>2, <1>4, <1>8, <2>1, WorldKept
<1>10. Frame(c, r)
    BY Zenon, <1>2, <1>3, <1>5, <1>6, <1>7 DEF Frame, CallStep
<1>11. Own(c, r)
    BY Zenon, <1>1, <1>3, <1>4, <1>6, <1>7 DEF Own, Unborn
<1> QED
    BY <1>6, <1>8, <1>9, <1>10, <1>11, Acts DEF CallStep

\* A step that only looks.
LEMMA NoWork ==
    ASSUME NEW c, NEW r,
           UNCHANGED <<proc, orphan, live, record, handle, asked, tick, crashes, jailed>>
    PROVE  Work(c, r)
BY Zenon DEF Work

\* What is known of a call that goes on.
LEMMA CallFacts ==
    ASSUME AdapterInv, NEW c \in Callers, call[c].at # "idle"
    PROVE  /\ Types /\ World /\ call[c] \in Calls /\ Row(call[c])
           /\ call[c].op # "idle" /\ call[c].req \in asked
           /\ call[c].req \in Requests /\ call[c].req \in Instances
           /\ KeptWell(call[c].req)
<1>1. Types /\ World /\ call[c] \in Calls /\ Row(call[c])
    BY Zenon DEF AdapterInv, Types
<1>2. call[c].op # "idle" /\ call[c].req \in asked
    BY Zenon, <1>1, PlaceFacts
<1>3. call[c].req \in Requests /\ call[c].req \in Instances
    BY Zenon, <1>1, <1>2 DEF Types, Instances
<1> QED
    BY Zenon, <1>1, <1>2, <1>3 DEF AdapterInv

\* A call that answers.
LEMMA Answered ==
    ASSUME AdapterInv, NEW c \in Callers, call[c].at # "idle", NEW r, r = call[c].req,
           NEW ans \in {"none", "running", "ended", "unknown", "err"}, NEW hint \in Handles,
           Answer(c, ans, hint), asked' = asked,
           ans = "ended" => proc'[r].state \in {"zombie", "gone"},
           hint # NoHandle => ~Unborn(r)',
           call[c].op = "start" => handle'[r] = NoHandle /\ (hint = NoHandle => Unborn(r)')
    PROVE  CallStep(c, r)
<1>1. /\ Types /\ Row(call[c]) /\ call[c].op # "idle" /\ r \in asked /\ r \in Requests
    BY Zenon, CallFacts
<1>2. PICK y \in Calls : y = call'[c]
    BY Zenon, <1>1, AnswerFacts
<1>3. /\ call' \in [Callers -> Calls] /\ (\A d \in Callers : d # c => call'[d] = call[d])
      /\ y.op = call[c].op /\ y.req = r /\ y.at = "return" /\ y.child = FALSE
      /\ y.ans = ans /\ y.hint = hint
    BY Zenon, <1>1, <1>2, AnswerFacts
<1>4. StartRow(y)' \/ y.op # "start"
    BY Zenon, <1>3 DEF StartRow
<1>5. ControlRow(y)' \/ y.op = "start"
    BY Zenon, <1>3 DEF ControlRow
<1>6. Row(y)'
    BY Zenon, <1>1, <1>3, <1>4, <1>5 DEF Row
<1>7. Row(call[c])'
    BY Zenon, <1>2, <1>6
<1> QED
    BY Zenon, <1>2, <1>3, <1>7 DEF CallStep

\* The call goes on at another place, and its row holds there.
Resumes(c, at, y) ==
    /\ y.op = call[c].op /\ y.req = call[c].req /\ y.at = at
    /\ y.birth = call[c].birth /\ y.fd = call[c].fd
    /\ y.token = call[c].token /\ y.child = call[c].child /\ y.running = call[c].running
    /\ y.ans = call[c].ans /\ y.hint = call[c].hint

RowAfter(c, at) == \A y \in Calls : Resumes(c, at, y) => Row(y)'

LEMMA Went ==
    ASSUME AdapterInv, NEW c \in Callers, call[c].at # "idle", NEW r, r = call[c].req,
           NEW at \in Places, Goto(c, at), RowAfter(c, at)
    PROVE  CallStep(c, r)
<1>1. Types
    BY CallFacts, Zenon
<1>2. PICK y \in Calls : y = call'[c]
    BY <1>1, GotoFacts, Zenon
<1>3. Resumes(c, at, y) /\ call' \in [Callers -> Calls]
      /\ \A d \in Callers : d # c => call'[d] = call[d]
    BY <1>1, <1>2, GotoFacts, Zenon DEF Resumes
<1>4. Row(y)'
    BY <1>3, Zenon DEF RowAfter
<1>5. Row(call[c])'
    BY <1>2, <1>4, Zenon
<1> QED
    BY <1>2, <1>3, <1>5, Zenon DEF CallStep, Resumes

LEMMA PlacesFacts ==
    "spawn" \in Places /\ "locate" \in Places /\ "birth" \in Places /\ "stdin" \in Places
    /\ "open" \in Places /\ "environ" \in Places /\ "pinned" \in Places /\ "wait" \in Places
BY Zenon DEF Places

----------------------------------------------------------------------------
(* The steps of a start *)

LEMMA StartFacts ==
    ASSUME AdapterInv, NEW c \in Callers,
           call[c].at \in {"prepare", "spawn", "locate", "birth", "look", "relocate", "stdin"}
    PROVE  /\ call[c].op = "start" /\ call[c].ans = "none"
           /\ call[c].birth \in Births \cup {NoBirth} /\ call[c].running \in BOOLEAN
           /\ StartRow(call[c])
           /\ handle[call[c].req] = NoHandle
           /\ call[c].req \notin orphan /\ ~Kept(call[c].req)
           /\ call[c].child = FALSE
           /\ call[c].at \in {"locate", "birth", "look", "relocate", "stdin"} =>
                 ~Unborn(call[c].req)
<1>1. Types /\ call[c] \in Calls /\ Row(call[c])
    BY Zenon, CallFacts
<1>2. call[c].op = "start" /\ StartRow(call[c])
    BY Zenon, <1>1, PlaceFacts
<1>3. call[c].child \in BOOLEAN /\ call[c].running \in BOOLEAN
      /\ call[c].birth \in Births \cup {NoBirth}
    BY Zenon, <1>1 DEF Calls
<1> QED
    BY Zenon, <1>1, <1>2, <1>3 DEF StartRow, Row, Unborn, Present

LEMMA PrepareKeeps ==
    ASSUME AdapterInv, NEW c \in Callers, prepare_jail(c)
    PROVE  AdapterInv'
<1>1. PICK r \in Requests : r = call[c].req
    BY Zenon, CallFacts DEF prepare_jail, At
<1>2. call[c].at = "prepare" /\ call[c].op = "start"
      /\ UNCHANGED <<proc, orphan, live, record, handle, asked, tick, crashes, jailed>>
    BY Zenon, StartFacts DEF prepare_jail, At
<1>3. Unborn(r) /\ handle[r] = NoHandle /\ r \notin orphan /\ ~Kept(r) /\ r \in asked
    BY Zenon, <1>1, <1>2, StartFacts, CallFacts DEF StartRow
<1>4. Work(c, r)
    BY Zenon, <1>2, NoWork
<1>5. CASE Answer(c, "err", NoHandle)
    <2>1. Unborn(r)' /\ handle'[r] = NoHandle
        BY Zenon, <1>2, <1>3 DEF Unborn
    <2>2. CallStep(c, r)
        BY Zenon, <1>1, <1>2, <1>5, <2>1, Answered, HandleFacts
    <2> QED
        BY Zenon, <1>1, <1>2, <1>4, <2>2, Works
<1>6. CASE Goto(c, "spawn")
    <2>1. ASSUME NEW y \in Calls, y.op = "start", y.req = r, y.at = "spawn",
                 y.child = FALSE, y.ans = "none", y.hint = call[c].hint
          PROVE  Row(y)'
        <3>1. Unborn(r)' /\ ~Kept(r)'
            BY Zenon, <1>2, <1>3 DEF Unborn, Kept
        <3>2. y.hint = NoHandle
            BY Zenon, <1>1, <1>2, <1>3, <2>1, CallFacts DEF Row
        <3>3. StartRow(y)'
            BY Zenon, <1>2, <1>3, <2>1, <3>1 DEF StartRow
        <3> QED
            BY Zenon, <1>2, <1>3, <2>1, <3>2, <3>3 DEF Row
    <2>2. call[c].ans = "none" /\ call[c].child = FALSE
        BY Zenon, <1>2, StartFacts
    <2>3. RowAfter(c, "spawn")
        BY <1>1, <1>2, <2>1, <2>2, Zenon DEF RowAfter, Resumes
    <2>4. CallStep(c, r)
        BY <1>1, <1>2, <1>6, <2>3, Went, PlacesFacts, Zenon
    <2> QED
        BY <1>1, <1>2, <1>4, <2>4, Works, Zenon
<1> QED
    BY Zenon, <1>5, <1>6 DEF prepare_jail

\* A child is born under a free number.
LEMMA SpawnKeeps ==
    ASSUME AdapterInv, NEW c \in Callers, spawn_child(c)
    PROVE  AdapterInv'
<1>1. PICK r \in Requests : r = call[c].req
    BY Zenon, CallFacts DEF spawn_child, At
<1>2. call[c].at = "spawn" /\ call[c].op = "start" /\ call[c].ans = "none"
      /\ call[c].child = FALSE
      /\ UNCHANGED <<orphan, live, record, handle, asked, tick, crashes, jailed>>
    BY Zenon, StartFacts DEF spawn_child, At
<1>3. Unborn(r) /\ handle[r] = NoHandle /\ r \notin orphan /\ ~Kept(r) /\ r \in asked
    BY Zenon, <1>1, <1>2, StartFacts, CallFacts DEF StartRow
<1>4. CASE Answer(c, "err", NoHandle) /\ UNCHANGED proc
    <2>1. Unborn(r)' /\ handle'[r] = NoHandle
        BY Zenon, <1>2, <1>3, <1>4 DEF Unborn
    <2>2. CallStep(c, r)
        BY Zenon, <1>1, <1>2, <1>4, <2>1, Answered, HandleFacts
    <2>3. Work(c, r)
        BY Zenon, <1>2, <1>4, NoWork
    <2> QED
        BY Zenon, <1>1, <1>2, <2>2, <2>3, Works
<1>5. CASE \E p \in Pids :
              /\ Occupant(p) = Nobody
              /\ proc' = [proc EXCEPT ![r] = [pid |-> p, birth |-> tick, state |-> "running"]]
              /\ Goto(c, "locate")
    <2>1. PICK p \in Pids :
              /\ Occupant(p) = Nobody
              /\ proc' = [proc EXCEPT ![r] = [pid |-> p, birth |-> tick, state |-> "running"]]
              /\ Goto(c, "locate")
        BY Zenon, <1>5
    <2>2. Types /\ World /\ r \in Instances
        BY Zenon DEF AdapterInv, Instances
    <2>3. /\ proc' \in [Instances -> Processes]
          /\ proc'[r].pid = p /\ proc'[r].birth = tick /\ proc'[r].state = "running"
          /\ \A i \in Instances : i # r => proc'[i] = proc[i]
        BY Zenon, <2>1, <2>2 DEF Types, Processes
    <2>4. \A i \in Instances : ~(Present(i) /\ proc[i].pid = p)
        BY Zenon, <2>1, <2>2, OccupantFacts
    <2>5. World'
        <3>1. \A i \in Instances : ~Unborn(i)' =>
                 proc'[i].pid \in Pids /\ proc'[i].birth \in Births
            BY Zenon, <2>2, <2>3 DEF World, Unborn, Types
        <3>2. \A i, j \in Instances :
                 Present(i)' /\ Present(j)' /\ proc'[i].pid = proc'[j].pid => i = j
            BY Zenon, <2>2, <2>3, <2>4 DEF World, Present
        <3>3. \A q \in Requests : /\ Traced(q)' => ~Unborn(q)'
                                  /\ q \notin asked' => Unborn(q)'
            BY Zenon, <1>2, <1>3, <2>2, <2>3 DEF World, Unborn, Traced, Instances
        <3> QED
            BY Zenon, <3>1, <3>2, <3>3 DEF World
    <2>6. ASSUME NEW y \in Calls, y.op = "start", y.req = r, y.at = "locate",
                 y.child = FALSE, y.ans = "none"
          PROVE  Row(y)'
        <3>1. Present(r)' /\ ~Unborn(r)' /\ ~Kept(r)'
            BY Zenon, <1>2, <1>3, <2>3 DEF Unborn, Present, Kept
        <3>2. StartRow(y)'
            BY Zenon, <1>2, <1>3, <2>6, <3>1 DEF StartRow
        <3> QED
            BY Zenon, <1>2, <1>3, <2>6, <3>1, <3>2 DEF Row
    <2>r. RowAfter(c, "locate")
        BY <1>1, <1>2, <2>6, Zenon DEF RowAfter, Resumes
    <2>7. CallStep(c, r)
        BY <1>1, <1>2, <2>1, <2>r, Went, PlacesFacts, Zenon
    <2>8. Types'
        BY Zenon, <1>2, <2>2, <2>3, <2>7 DEF Types, CallStep
    <2>9. Frame(c, r)
        BY Zenon, <1>2, <2>3, <2>7 DEF Frame, CallStep
    <2>10. Own(c, r)
        BY Zenon, <1>2, <1>3 DEF Own, Moves
    <2>11. KeptWell(r)'
        BY Zenon, <1>2, <1>3 DEF KeptWell, Kept
    <2> QED
        BY Zenon, <1>1, <1>2, <2>5, <2>7, <2>8, <2>9, <2>10, <2>11, Acts DEF CallStep
<1> QED
    BY Zenon, <1>1, <1>4, <1>5 DEF spawn_child

\* A start that ends once its child was born, with what leads to the child in its answer.
LEMMA StartEnds ==
    ASSUME AdapterInv, NEW c \in Callers, NEW r \in Requests, r = call[c].req,
           call[c].at \in {"locate", "birth", "look", "relocate", "stdin"},
           NEW ans \in {"running", "ended", "err"}, NEW hint \in Handles, hint # NoHandle,
           Answer(c, ans, hint), ans = "ended" => proc'[r].state = "gone",
           proc' = proc \/ proc' = Reaped(r),
           orphan' = orphan \/ orphan' = orphan \cup {r},
           \/ live' = live
           \/ /\ live' = [live EXCEPT ![KindOf(r)][PidOf(r)] = r]
              /\ proc' = proc /\ orphan' = orphan /\ (r \notin jailed => Present(r)),
           \/ record' = record
           \/ \E b \in Births \cup {NoBirth} : record' = [record EXCEPT ![r] = Locator(b)],
           UNCHANGED <<handle, asked, jailed, tick, crashes>>
    PROVE  AdapterInv'
<1>1. /\ call[c].op = "start" /\ handle[r] = NoHandle /\ r \notin orphan
      /\ ~Kept(r) /\ ~Unborn(r)
    BY Zenon, StartFacts
<1>2. Types /\ r \in Instances
    BY Zenon DEF AdapterInv, Instances
<1>3. ~Unborn(r)'
    BY <1>1, <1>2 DEF Reaped, Unborn, Types, Processes
<1>4. Work(c, r)
    BY Zenon, <1>1 DEF Work
<1>5. CallStep(c, r)
    BY <1>1, <1>3, Answered
<1> QED
    BY Zenon, <1>1, <1>4, <1>5, Works

LEMMA LocateKeeps ==
    ASSUME AdapterInv, NEW c \in Callers, write_locator_record(c)
    PROVE  AdapterInv'
<1>1. PICK r \in Requests : r = call[c].req
    BY Zenon, CallFacts DEF write_locator_record, At
<1>2. call[c].at = "locate" /\ UNCHANGED <<live, handle, asked, tick, crashes, jailed>>
    BY Zenon DEF write_locator_record, At
<1>3. Locator(NoBirth) \in Handles /\ Locator(NoBirth) # NoHandle
    BY Zenon, HandleFacts
<1>4. CASE Answer(c, "err", Locator(NoBirth))
    <2>1. record' = record \/ record' = [record EXCEPT ![r] = Locator(NoBirth)]
        BY Zenon, <1>1 DEF write_locator_record
    <2>2. /\ proc' = proc \/ proc' = Reaped(r)
          /\ orphan' = orphan \/ orphan' = orphan \cup {r}
        BY Zenon, <1>1 DEF write_locator_record, LetGo, kill_child, detach_reaper
    <2> QED
        BY Zenon, <1>1, <1>2, <1>3, <1>4, <2>1, <2>2, StartEnds
<1>5. CASE /\ record' = [record EXCEPT ![r] = Locator(NoBirth)]
           /\ Goto(c, "birth") /\ UNCHANGED <<proc, orphan>>
    <2>1. /\ call[c].op = "start" /\ call[c].ans = "none" /\ handle[r] = NoHandle
          /\ r \notin orphan /\ ~Kept(r) /\ ~Unborn(r) /\ Present(r) /\ r \in asked
          /\ call[c].child = FALSE /\ Types
        BY Zenon, <1>1, <1>2, StartFacts, CallFacts DEF StartRow
    <2>2. Work(c, r)
        BY Zenon, <1>2, <1>5, <2>1 DEF Work
    <2>3. record'[r] # NoHandle
        BY Zenon, <1>3, <1>5, <2>1 DEF Types
    <2>4. ASSUME NEW y \in Calls, y.op = "start", y.req = r, y.at = "birth",
                 y.child = FALSE, y.ans = "none"
          PROVE  Row(y)'
        <3>1. Present(r)' /\ ~Unborn(r)' /\ ~Kept(r)'
            BY Zenon, <1>2, <1>5, <2>1 DEF Unborn, Present, Kept
        <3>2. StartRow(y)'
            BY Zenon, <1>2, <1>5, <2>1, <2>3, <2>4, <3>1 DEF StartRow
        <3> QED
            BY Zenon, <1>2, <2>1, <2>4, <3>1, <3>2 DEF Row
    <2>5. RowAfter(c, "birth")
        BY <1>1, <2>1, <2>4, Zenon DEF RowAfter, Resumes
    <2>6. CallStep(c, r)
        BY <1>1, <1>2, <1>5, <2>5, Went, PlacesFacts, Zenon
    <2> QED
        BY <1>1, <2>1, <2>2, <2>6, Works, Zenon
<1> QED
    BY Zenon, <1>1, <1>4, <1>5 DEF write_locator_record

\* The call reads the birth of its child.
LEMMA BirthKeeps ==
    ASSUME AdapterInv, NEW c \in Callers, process_birth_from_child(c)
    PROVE  AdapterInv'
<1>1. PICK r \in Requests : r = call[c].req
    BY Zenon, CallFacts DEF process_birth_from_child, At
<1>2. call[c].at = "birth" /\ UNCHANGED <<live, record, handle, asked, tick, crashes, jailed>>
    BY Zenon DEF process_birth_from_child, At
<1>3. CASE Answer(c, "err", Locator(NoBirth)) /\ Discard(r)
    BY Zenon, <1>1, <1>2, <1>3, StartEnds, HandleFacts DEF Discard, kill_child, detach_reaper
<1>4. CASE /\ call' = [call EXCEPT ![c].birth = proc[r].birth,
                                   ![c].at = IF r \in jailed THEN "look" ELSE "relocate"]
           /\ UNCHANGED <<proc, orphan>>
    <2>1. /\ call[c].op = "start" /\ call[c].ans = "none" /\ handle[r] = NoHandle
          /\ r \notin orphan /\ ~Kept(r) /\ ~Unborn(r) /\ Present(r) /\ r \in asked
          /\ call[c].child = FALSE /\ Types /\ World /\ record[r] # NoHandle /\ call[c] \in Calls
          /\ r \in Instances
        BY Zenon, <1>1, <1>2, StartFacts, CallFacts DEF StartRow
    <2>2. proc[r].birth \in Births \cup {NoBirth}
        BY Zenon, <2>1 DEF Types, Processes
    <2> DEFINE x == call[c]
               next == IF r \in jailed THEN "look" ELSE "relocate"
               y == [x EXCEPT !.birth = proc[r].birth, !.at = next]
    <2>3. next \in Places
        BY Zenon DEF Places
    <2>4. /\ y \in Calls /\ y.op = "start" /\ y.req = r /\ y.at = next
          /\ y.child = FALSE /\ y.ans = "none"
        BY Zenon, <1>1, <2>1, <2>2, <2>3 DEF Calls
    <2>5. call' = [call EXCEPT ![c] = y]
        BY Zenon, <1>4
    <2> HIDE DEF y
    <2>6. /\ call' \in [Callers -> Calls] /\ call'[c] = y
          /\ \A d \in Callers : d # c => call'[d] = call[d]
        BY Zenon, <2>1, <2>4, <2>5 DEF Types
    <2>7. PICK z \in Calls : z = y
        BY Zenon, <2>4
    <2>8. Row(z)
        <3>1. StartRow(z)
            BY Zenon, <2>1, <2>4, <2>7 DEF StartRow
        <3> QED
            BY Zenon, <2>1, <2>4, <2>7, <3>1 DEF Row
    <2> QED
        BY Zenon, <1>1, <1>2, <1>4, <2>1, <2>4, <2>6, <2>7, <2>8, Thinks
<1> QED
    BY Zenon, <1>1, <1>3, <1>4 DEF process_birth_from_child

\* The jailed adapter looks at its child, and reaps one that has ended.
LEMMA LookKeeps ==
    ASSUME AdapterInv, NEW c \in Callers, spawn_jailed(c)
    PROVE  AdapterInv'
<1>1. PICK r \in Requests : r = call[c].req
    BY Zenon, CallFacts DEF spawn_jailed, At
<1>2. call[c].at = "look" /\ UNCHANGED <<live, record, handle, asked, tick, crashes, jailed>>
    BY Zenon DEF spawn_jailed, At
<1>3. CASE /\ Answer(c, "err", Locator(NoBirth)) \/ Answer(c, "err", Pin(call[c].birth))
           /\ detach_reaper(r)
    <2>1. /\ Locator(NoBirth) \in Handles /\ Locator(NoBirth) # NoHandle
          /\ Pin(call[c].birth) \in Handles /\ Pin(call[c].birth) # NoHandle
        BY Zenon, <1>2, StartFacts, HandleFacts
    <2>2. proc' = proc /\ orphan' = orphan \cup {r}
        BY Zenon, <1>3 DEF detach_reaper
    <2>3. CASE Answer(c, "err", Locator(NoBirth))
        BY Zenon, <1>1, <1>2, <2>1, <2>2, <2>3, StartEnds
    <2>4. CASE Answer(c, "err", Pin(call[c].birth))
        BY Zenon, <1>1, <1>2, <2>1, <2>2, <2>4, StartEnds
    <2> QED
        BY Zenon, <1>3, <2>3, <2>4
<1>4. CASE /\ call' = [call EXCEPT ![c].running = Alive(r), ![c].at = "relocate"]
           /\ proc' = (IF Alive(r) THEN proc ELSE Reaped(r))
           /\ UNCHANGED orphan
    <2>1. /\ call[c].op = "start" /\ call[c].ans = "none" /\ handle[r] = NoHandle
          /\ r \notin orphan /\ ~Kept(r) /\ ~Unborn(r) /\ Present(r) /\ r \in asked
          /\ call[c].child = FALSE /\ Types /\ World /\ record[r] # NoHandle /\ call[c] \in Calls
          /\ r \in Instances /\ r \in jailed
        BY Zenon, <1>1, <1>2, StartFacts, CallFacts DEF StartRow
    <2> DEFINE x == call[c]
               y == [x EXCEPT !.running = Alive(r), !.at = "relocate"]
    <2>2. Alive(r) \in BOOLEAN
        BY Zenon DEF Alive
    <2>3. /\ y \in Calls /\ y.op = "start" /\ y.req = r /\ y.at = "relocate"
          /\ y.child = FALSE /\ y.ans = "none"
        BY Zenon, <1>1, <2>1, <2>2 DEF Calls, Places
    <2>4. y.running = Alive(r)
        BY <2>1, Zenon DEF Calls
    <2>5. call' = [call EXCEPT ![c] = y]
        BY Zenon, <1>4
    <2> HIDE DEF y
    <2>6. /\ call' \in [Callers -> Calls] /\ call'[c] = y
          /\ \A d \in Callers : d # c => call'[d] = call[d]
        BY Zenon, <2>1, <2>3, <2>5 DEF Types
    <2>7. PICK z \in Calls : z = y
        BY Zenon, <2>3
    <2>8. /\ ~Alive(r) => proc'[r].state = "gone"
          /\ Alive(r) => Present(r)'
          /\ ~Unborn(r)'
        BY <1>4, <2>1 DEF Alive, Present, Reaped, Types, Unborn
    <2>9. z.running <=> Alive(r)
        BY <2>4, <2>7, Zenon
    <2>10. Row(z)'
        <3>1. ~Kept(r)'
            BY Zenon, <1>2, <2>1 DEF Kept
        <3>2. StartRow(z)'
            BY Zenon, <1>2, <1>4, <2>1, <2>3, <2>7, <2>8, <2>9, <3>1 DEF StartRow
        <3> QED
            BY Zenon, <1>2, <2>1, <2>3, <2>7, <2>8, <3>2 DEF Row
    <2>11. Row(call[c])'
        BY Zenon, <2>6, <2>7, <2>10
    <2>12. CallStep(c, r)
        BY Zenon, <2>1, <2>3, <2>6, <2>11 DEF CallStep
    <2>13. Work(c, r)
        BY Zenon, <1>2, <1>4, <2>1 DEF Work
    <2> QED
        BY Zenon, <1>1, <2>1, <2>12, <2>13, Works
<1> QED
    BY Zenon, <1>1, <1>3, <1>4 DEF spawn_jailed

LEMMA RelocateKeeps ==
    ASSUME AdapterInv, NEW c \in Callers, rewrite_locator_record(c)
    PROVE  AdapterInv'
<1>1. PICK r \in Requests : r = call[c].req
    BY Zenon, CallFacts DEF rewrite_locator_record, At
<1>2. /\ call[c].at = "relocate" /\ r \notin jailed
      /\ UNCHANGED <<proc, orphan, live, handle, asked, tick, crashes, jailed>>
    BY Zenon, <1>1 DEF rewrite_locator_record, At
<1>3. call[c].birth \in Births \cup {NoBirth}
    BY Zenon, <1>2, StartFacts
<1>4. /\ Pin(call[c].birth) \in Handles /\ Pin(call[c].birth) # NoHandle
      /\ Locator(call[c].birth) # NoHandle
    BY Zenon, <1>3, HandleFacts
<1>5. CASE Answer(c, "err", Pin(call[c].birth))
    <2>1. record' = record \/ record' = [record EXCEPT ![r] = Locator(call[c].birth)]
        BY Zenon, <1>1 DEF rewrite_locator_record
    <2> QED
        BY Zenon, <1>1, <1>2, <1>3, <1>4, <1>5, <2>1, StartEnds
<1>6. CASE record' = [record EXCEPT ![r] = Locator(call[c].birth)] /\ Goto(c, "stdin")
    <2>1. /\ call[c].op = "start" /\ call[c].ans = "none" /\ handle[r] = NoHandle
          /\ r \notin orphan /\ ~Kept(r) /\ ~Unborn(r) /\ Present(r) /\ r \in asked
          /\ call[c].child = FALSE /\ Types
        BY Zenon, <1>1, <1>2, StartFacts, CallFacts DEF StartRow
    <2>2. Work(c, r)
        BY Zenon, <1>2, <1>3, <1>6, <2>1 DEF Work
    <2>3. record'[r] # NoHandle
        BY Zenon, <1>4, <1>6, <2>1 DEF Types
    <2>4. ASSUME NEW y \in Calls, y.op = "start", y.req = r, y.at = "stdin",
                 y.child = FALSE, y.ans = "none"
          PROVE  Row(y)'
        <3>1. Present(r)' /\ ~Unborn(r)' /\ ~Kept(r)'
            BY Zenon, <1>2, <2>1 DEF Unborn, Present, Kept
        <3>2. StartRow(y)'
            BY <1>2, <2>1, <2>3, <2>4, <3>1 DEF StartRow
        <3> QED
            BY Zenon, <1>2, <2>1, <2>4, <3>1, <3>2 DEF Row
    <2>5. RowAfter(c, "stdin")
        BY <1>1, <2>1, <2>4, Zenon DEF RowAfter, Resumes
    <2>6. CallStep(c, r)
        BY <1>1, <1>2, <1>6, <2>5, Went, PlacesFacts, Zenon
    <2> QED
        BY <1>1, <2>1, <2>2, <2>6, Works, Zenon
<1> QED
    BY Zenon, <1>1, <1>5, <1>6 DEF rewrite_locator_record

LEMMA JailedStartKeeps ==
    ASSUME AdapterInv, NEW c \in Callers, JailedStart(c)
    PROVE  AdapterInv'
<1>1. PICK r \in Requests : r = call[c].req
    BY Zenon, CallFacts DEF JailedStart, At
<1>2. /\ call[c].at = "relocate" /\ r \in jailed
      /\ UNCHANGED <<handle, asked, tick, crashes, jailed>>
    BY Zenon, <1>1 DEF JailedStart, At
<1>3. call[c].birth \in Births \cup {NoBirth}
    BY Zenon, <1>2, StartFacts
<1>4. Pin(call[c].birth) \in Handles /\ Pin(call[c].birth) # NoHandle
    BY Zenon, <1>3, HandleFacts
<1>5. CASE Answer(c, "err", Pin(call[c].birth)) /\ detach_reaper(r) /\ UNCHANGED <<record, live>>
    BY Zenon, <1>1, <1>2, <1>4, <1>5, StartEnds DEF detach_reaper
<1>6. CASE /\ record' = [record EXCEPT ![r] = Locator(call[c].birth)]
           /\ live' = [live EXCEPT ![KindOf(r)][PidOf(r)] = r]
           /\ Answer(c, IF call[c].running THEN "running" ELSE "ended", Pin(call[c].birth))
           /\ UNCHANGED <<proc, orphan>>
    <2> DEFINE ans == IF call[c].running THEN "running" ELSE "ended"
    <2>1. ~call[c].running => proc[r].state = "gone"
        BY Zenon, <1>1, <1>2, StartFacts DEF StartRow
    <2>2. ans \in {"running", "ended", "err"} /\ (ans = "ended" => proc'[r].state = "gone")
        BY Zenon, <1>6, <2>1
    <2>3. Answer(c, ans, Pin(call[c].birth))
        BY Zenon, <1>6
    <2> HIDE DEF ans
    <2> QED
        BY Zenon, <1>1, <1>2, <1>3, <1>4, <1>6, <2>2, <2>3, StartEnds
<1> QED
    BY Zenon, <1>1, <1>5, <1>6 DEF JailedStart

LEMMA StdinKeeps ==
    ASSUME AdapterInv, NEW c \in Callers, start_execution(c)
    PROVE  AdapterInv'
<1>1. PICK r \in Requests : r = call[c].req
    BY Zenon, CallFacts DEF start_execution, At
<1>2. call[c].at = "stdin" /\ UNCHANGED <<record, handle, asked, tick, crashes, jailed>>
    BY Zenon DEF start_execution, At
<1>3. PICK pin \in Handles : pin = Pin(call[c].birth) /\ pin # NoHandle
    BY Zenon, <1>2, StartFacts, HandleFacts
<1>4. Types /\ r \in Instances
    BY Zenon DEF AdapterInv, Instances
<1>5. CASE Answer(c, "err", pin) /\ kill_child(r) /\ UNCHANGED live
    BY Zenon, <1>1, <1>2, <1>3, <1>5, StartEnds DEF kill_child
<1>6. CASE Answer(c, "err", pin) /\ UNCHANGED <<proc, orphan, live>>
    BY Zenon, <1>1, <1>2, <1>3, <1>6, StartEnds
<1>7. CASE /\ proc' = Reaped(r)
           /\ Answer(c, "ended", pin) \/ Answer(c, "err", pin)
           /\ UNCHANGED <<orphan, live>>
    <2>1. proc'[r].state = "gone"
        BY Zenon, <1>4, <1>7 DEF Reaped, Types, Processes
    <2>2. CASE Answer(c, "ended", pin)
        BY Zenon, <1>1, <1>2, <1>3, <1>7, <2>1, <2>2, StartEnds
    <2>3. CASE Answer(c, "err", pin)
        BY <1>1, <1>2, <1>3, <1>7, <2>3, StartEnds
    <2> QED
        BY Zenon, <1>7, <2>2, <2>3
<1>8. CASE /\ Alive(r) /\ live' = [live EXCEPT ![KindOf(r)][PidOf(r)] = r]
           /\ Answer(c, "running", pin) /\ UNCHANGED <<proc, orphan>>
    <2>1. Present(r)
        BY Zenon, <1>8 DEF Alive, Present
    <2> QED
        BY Zenon, <1>1, <1>2, <1>3, <1>8, <2>1, StartEnds
<1> QED
    BY Zenon, <1>1, <1>3, <1>5, <1>6, <1>7, <1>8 DEF start_execution

----------------------------------------------------------------------------
(* The steps of a control call *)

LEMMA ControlFacts ==
    ASSUME AdapterInv, NEW c \in Callers,
           call[c].at \in {"parse", "lookup", "open", "stat", "environ", "pinned", "wait"}
    PROVE  /\ call[c].op \in Operations \ {"start"} /\ call[c].ans = "none"
           /\ call[c].birth \in Births \cup {NoBirth} /\ call[c].fd \in Instances \cup {Nobody}
           /\ call[c].source \in Handles
           /\ call[c].child \in BOOLEAN /\ call[c].token \in BOOLEAN
           /\ ControlRow(call[c])
<1>1. Types /\ call[c] \in Calls /\ Row(call[c])
    BY Zenon, CallFacts
<1>2. call[c].op \notin {"idle", "start"} /\ ControlRow(call[c])
    BY Zenon, <1>1, PlaceFacts
<1>3. /\ call[c].child \in BOOLEAN /\ call[c].token \in BOOLEAN
      /\ call[c].birth \in Births \cup {NoBirth} /\ call[c].fd \in Instances \cup {Nobody}
      /\ call[c].source \in Handles /\ call[c].op \in Operations \cup {"idle"}
    BY Zenon, <1>1 DEF Calls
<1> QED
    BY Zenon, <1>1, <1>2, <1>3 DEF Row

\* A control call answers; who has the child or finds it in the live map may reap it.
LEMMA ControlEnds ==
    ASSUME AdapterInv, NEW c \in Callers, NEW r \in Requests, r = call[c].req,
           call[c].at \in {"parse", "lookup", "open", "stat", "environ", "pinned", "wait"},
           NEW ans \in {"running", "ended", "unknown", "err"}, NEW hint \in Handles,
           Answer(c, ans, hint), ans = "ended" => proc'[r].state \in {"zombie", "gone"},
           hint # NoHandle => ~Unborn(r), Work(c, r)
    PROVE  AdapterInv'
<1>1. call[c].op # "start" /\ call[c].op # "idle" /\ asked' = asked
    BY Zenon, ControlFacts DEF Operations, Work
<1>2. Types /\ r \in Instances
    BY Zenon DEF AdapterInv, Instances
<1>3. ~Unborn(r) => ~Unborn(r)'
    BY ZenonT(60), <1>2 DEF Work, Reaped, Unborn, Types, Processes
<1>4. CallStep(c, r)
    BY Zenon, <1>1, <1>3, Answered
<1> QED
    BY Zenon, <1>1, <1>4, Works

LEMMA ParsedFacts ==
    ASSUME AdapterInv, NEW c \in Callers, call[c].at \in {"parse", "lookup"}
    PROVE  call[c].token = TRUE /\ call[c].child = FALSE
<1>1. ControlRow(call[c]) /\ call[c].child \in BOOLEAN /\ call[c].token \in BOOLEAN
    BY Zenon, ControlFacts
<1>2. call[c].token /\ ~call[c].child
    BY Zenon, <1>1 DEF ControlRow
<1> QED
    BY Zenon, <1>1, <1>2

\* Past the handle, the request is known to have a process.
LEMMA ResolvedFacts ==
    ASSUME AdapterInv, NEW c \in Callers, NEW r, r = call[c].req,
           call[c].at \in {"lookup", "open", "stat", "environ", "pinned", "wait"}
    PROVE  /\ ~Unborn(r) /\ PidOf(r) \in Pids
           /\ Occupant(PidOf(r)) = Nobody => proc[r].state = "gone"
           /\ Occupant(PidOf(r)) # Nobody => Occupant(PidOf(r)) \in Instances
           /\ Present(r) => Occupant(PidOf(r)) = r
<1>1. Types /\ World /\ r \in Instances
    BY Zenon, CallFacts
<1>2. ~Unborn(r)
    BY Zenon, ControlFacts DEF ControlRow
<1>3. PidOf(r) \in Pids
    BY Zenon, <1>1, <1>2 DEF World, PidOf
<1>4. /\ Present(r) => Occupant(PidOf(r)) = r
      /\ Occupant(PidOf(r)) = Nobody => ~Present(r)
      /\ Occupant(PidOf(r)) # Nobody => Occupant(PidOf(r)) \in Instances
    BY Zenon, <1>1, OccupantFacts DEF PidOf
<1>5. proc[r].state \in {"unborn", "running", "zombie", "gone"}
    BY Zenon, <1>1 DEF Types, Processes
<1> QED
    BY Zenon, <1>2, <1>3, <1>4, <1>5 DEF Unborn, Present

\* Presence answers with a handle that the request's process has.
LEMMA PresenceEnds ==
    ASSUME AdapterInv, NEW c \in Callers, NEW r \in Requests, r = call[c].req,
           call[c].at \in {"lookup", "open", "stat", "environ", "pinned", "wait"},
           NEW ans \in {"running", "ended", "unknown", "err"},
           Presence(c, ans), ans = "ended" => proc'[r].state \in {"zombie", "gone"}, Work(c, r)
    PROVE  AdapterInv'
<1> DEFINE hint == IF call[c].op # "reconcile" THEN NoHandle
                   ELSE IF ans = "unknown" THEN call[c].source
                   ELSE Pin(call[c].birth)
<1>1. hint \in Handles
    BY Zenon, ControlFacts, HandleFacts
<1>2. Answer(c, ans, hint)
    BY Zenon DEF Presence
<1>3. ~Unborn(r)
    BY Zenon, ResolvedFacts
<1> HIDE DEF hint
<1> QED
    BY Zenon, <1>1, <1>2, <1>3, ControlEnds

LEMMA ParseKeeps ==
    ASSUME AdapterInv, NEW c \in Callers, control_parsed(c)
    PROVE  AdapterInv'
<1>1. PICK r \in Requests : r = call[c].req
    BY Zenon, CallFacts DEF control_parsed, At
<1>2. /\ call[c].at = "parse"
      /\ UNCHANGED <<proc, orphan, live, record, handle, asked, tick, crashes, jailed>>
    BY Zenon DEF control_parsed, At
<1>3. /\ Types /\ World /\ call[c] \in Calls /\ r \in Instances /\ r \in asked
      /\ call[c].op \in Operations \ {"start"} /\ call[c].ans = "none"
      /\ call[c].token = TRUE /\ call[c].child = FALSE
    BY Zenon, <1>1, <1>2, CallFacts, ControlFacts, ParsedFacts
<1>4. Work(c, r)
    BY Zenon, <1>2, NoWork
<1> DEFINE s == Source(c)
           birth == resolve_locator_to_parsed(r, s)
           kept == IF call[c].op = "reconcile" THEN s ELSE NoHandle
<1>5. s \in Handles /\ (s # NoHandle => ~Unborn(r)) /\ kept \in Handles
    BY Zenon, <1>1, <1>3, HandleFacts DEF Source, World, Traced, Types
<1>6. s # NoHandle => birth \in Births \cup {NoBirth}
    <2>1. s.birth \in Births \cup {NoBirth}
        BY Zenon, <1>5 DEF Handles
    <2>2. Occupant(PidOf(r)) # Nobody => proc[Occupant(PidOf(r))].birth \in Births
        BY Zenon, <1>3, OccupantFacts DEF World, Unborn, Present
    <2> QED
        BY Zenon, <2>1, <2>2 DEF resolve_locator_to_parsed
<1>7. s # NoHandle /\ birth = NoBirth => proc[r].state = "gone"
    <2>1. Occupant(PidOf(r)) # Nobody => proc[Occupant(PidOf(r))].birth # NoBirth
        BY <1>3, OccupantFacts, HandleFacts DEF World, Unborn, Present
    <2>2. birth = NoBirth => Occupant(PidOf(r)) = Nobody
        BY Zenon, <2>1 DEF resolve_locator_to_parsed
    <2>3. Occupant(PidOf(r)) = Nobody => ~Present(r)
        BY Zenon, <1>3, OccupantFacts DEF PidOf
    <2>4. proc[r].state \in {"unborn", "running", "zombie", "gone"}
        BY Zenon, <1>3 DEF Types, Processes
    <2> QED
        BY Zenon, <1>5, <2>2, <2>3, <2>4 DEF Unborn, Present
<1>8. CASE Answer(c, "err", NoHandle)
    BY Zenon, <1>1, <1>2, <1>4, <1>8, ControlEnds, HandleFacts
<1>9. CASE s = NoHandle /\ Answer(c, "unknown", NoHandle)
    BY Zenon, <1>1, <1>2, <1>4, <1>9, ControlEnds, HandleFacts
<1>10. CASE s # NoHandle /\ birth = NoBirth /\ Answer(c, "ended", kept)
    <2>1. proc'[r].state = "gone" /\ ~Unborn(r)
        BY Zenon, <1>2, <1>5, <1>7, <1>10
    <2> HIDE DEF kept
    <2> QED
        BY Zenon, <1>1, <1>2, <1>4, <1>5, <1>10, <2>1, ControlEnds
<1>11. CASE /\ s # NoHandle /\ birth # NoBirth
            /\ call' = [call EXCEPT ![c].at = "lookup", ![c].birth = birth,
                                    ![c].source = kept]
    <2>1. birth \in Births \cup {NoBirth} /\ ~Unborn(r)
        BY <1>5, <1>6, <1>11
    <2> HIDE DEF birth, kept, s
    <2> DEFINE x == call[c]
               y == [x EXCEPT !.at = "lookup", !.birth = birth, !.source = kept]
    <2>2. /\ y \in Calls /\ y.op = x.op /\ y.req = r /\ y.at = "lookup"
          /\ y.child = FALSE /\ y.token = TRUE /\ y.ans = "none" /\ y.hint = x.hint
        BY Zenon, <1>1, <1>3, <1>5, <2>1 DEF Calls, Places
    <2>3. call' = [call EXCEPT ![c] = y]
        BY Zenon, <1>11
    <2> HIDE DEF y
    <2>4. /\ call' \in [Callers -> Calls] /\ call'[c] = y
          /\ \A d \in Callers : d # c => call'[d] = call[d]
        BY <1>3, <2>2, <2>3 DEF Types
    <2>5. PICK z \in Calls : z = y
        BY Zenon, <2>2
    <2>6. Row(z)
        <3>1. ControlRow(z)
            BY Zenon, <2>1, <2>2, <2>5 DEF ControlRow
        <3> QED
            BY Zenon, <1>3, <2>1, <2>2, <2>5, <3>1 DEF Row, Operations
    <2> QED
        BY <1>1, <1>2, <1>3, <2>2, <2>4, <2>5, <2>6, Thinks DEF Operations
<1> QED
    BY Zenon, <1>1, <1>8, <1>9, <1>10, <1>11 DEF control_parsed

\* A call that found no child to ask goes on to pin the process, with its token.
LEMMA OpenKeeps ==
    ASSUME AdapterInv, NEW c \in Callers, call[c].at = "lookup", Goto(c, "open"),
           UNCHANGED <<proc, orphan, live, record, handle, asked, tick, crashes, jailed>>
    PROVE  AdapterInv'
<1>1. PICK r \in Requests : r = call[c].req
    BY CallFacts
<1>2. /\ call[c].op \in Operations \ {"start"} /\ call[c].ans = "none" /\ r \in asked
      /\ call[c].token = TRUE /\ call[c].child = FALSE /\ ~Unborn(r)
    BY Zenon, <1>1, CallFacts, ControlFacts, ParsedFacts, ResolvedFacts
<1>3. ASSUME NEW y \in Calls, y.op = call[c].op, y.req = r, y.at = "open",
             y.token = TRUE, y.child = FALSE, y.ans = "none"
      PROVE  Row(y)'
    <2>1. ~Unborn(r)'
        BY Zenon, <1>2 DEF Unborn
    <2>2. ControlRow(y)'
        BY Zenon, <1>3, <2>1 DEF ControlRow
    <2> QED
        BY Zenon, <1>2, <1>3, <2>1, <2>2 DEF Row, Operations
<1>4. RowAfter(c, "open")
    BY <1>1, <1>2, <1>3, Zenon DEF RowAfter, Resumes
<1>5. CallStep(c, r)
    BY <1>1, <1>4, Went, PlacesFacts, Zenon
<1>6. Work(c, r)
    BY NoWork, Zenon
<1>7. call[c].op # "idle"
    BY Zenon, <1>2 DEF Operations
<1> QED
    BY <1>1, <1>5, <1>6, <1>7, Works, Zenon

\* A child of the live map is asked and reaped if it has ended; anything else is pinned.
LEMMA AskKeeps ==
    ASSUME AdapterInv, NEW c \in Callers, call[c].at = "lookup", AskChild(c)
    PROVE  AdapterInv'
<1>1. PICK r \in Requests : r = call[c].req
    BY Zenon, CallFacts
<1>2. UNCHANGED <<orphan, record, handle, asked, tick, crashes, jailed>>
    BY Zenon DEF AskChild
<1>3. /\ Types /\ r \in Instances /\ ~Unborn(r) /\ PidOf(r) \in Pids
      /\ KindOf(r) \in Kinds
    BY Zenon, <1>1, CallFacts, ResolvedFacts DEF KindOf, Kinds
<1>4. Held(c) => Kept(r)
    BY Zenon, <1>1, <1>3 DEF Held, Kept
<1>5. CASE Held(c) /\ Presence(c, "running") /\ UNCHANGED <<proc, live>>
    <2>1. Work(c, r)
        BY Zenon, <1>2, <1>5, NoWork
    <2> QED
        BY Zenon, <1>1, <1>5, <2>1, PresenceEnds
<1>6. CASE Held(c) /\ Presence(c, "ended") /\ proc' = Reaped(r) /\ live' = Unheld(c)
    <2>1. Work(c, r)
        BY Zenon, <1>1, <1>2, <1>3, <1>4, <1>6 DEF Work, Unheld
    <2>2. proc'[r].state = "gone"
        BY Zenon, <1>3, <1>6 DEF Reaped, Types, Processes
    <2> QED
        BY Zenon, <1>1, <1>6, <2>1, <2>2, PresenceEnds
<1>7. CASE Goto(c, "open") /\ UNCHANGED <<proc, live>>
    BY Zenon, <1>2, <1>7, OpenKeeps
<1> QED
    BY Zenon, <1>1, <1>5, <1>6, <1>7 DEF AskChild

\* The local adapter's interrupt asks for no token of a child in its live map.
LEMMA InterruptKeeps ==
    ASSUME AdapterInv, NEW c \in Callers, interrupt_execution(c)
    PROVE  AdapterInv'
<1>1. PICK r \in Requests : r = call[c].req
    BY Zenon, CallFacts DEF interrupt_execution, At
<1>2. /\ call[c].at = "lookup" /\ call[c].op = "interrupt"
      /\ call' = [call EXCEPT ![c].at = "open", ![c].token = ~Held(c)]
      /\ UNCHANGED <<proc, orphan, live, record, handle, asked, tick, crashes, jailed>>
    BY Zenon DEF interrupt_execution, At
<1>3. /\ call[c].ans = "none" /\ r \in asked /\ call[c] \in Calls /\ Types
      /\ call[c].child = FALSE /\ ~Unborn(r)
    BY Zenon, <1>1, <1>2, CallFacts, ControlFacts, ParsedFacts, ResolvedFacts
<1> DEFINE x == call[c]
           y == [x EXCEPT !.at = "open", !.token = ~Held(c)]
<1>4. /\ y \in Calls /\ y.op = "interrupt" /\ y.req = r /\ y.at = "open"
      /\ y.child = FALSE /\ y.ans = "none"
    BY Zenon, <1>1, <1>2, <1>3 DEF Calls, Places
<1>5. call' = [call EXCEPT ![c] = y]
    BY Zenon, <1>2
<1> HIDE DEF y
<1>6. /\ call' \in [Callers -> Calls] /\ call'[c] = y
      /\ \A d \in Callers : d # c => call'[d] = call[d]
    BY Zenon, <1>3, <1>4, <1>5 DEF Types
<1>7. PICK z \in Calls : z = y
    BY Zenon, <1>4
<1>8. Row(z)
    <2>1. ControlRow(z)
        BY Zenon, <1>3, <1>4, <1>7 DEF ControlRow
    <2> QED
        BY Zenon, <1>3, <1>4, <1>7, <2>1 DEF Row
<1> QED
    BY Zenon, <1>1, <1>2, <1>3, <1>4, <1>6, <1>7, <1>8, Thinks

\* A child that is taken out of the live map belongs to the call.
LEMMA TakeKeeps ==
    ASSUME AdapterInv, NEW c \in Callers, NEW next \in {"open", "wait"},
           call[c].at = "lookup", call[c].op \in {"terminate", "collect"},
           next = "open" => call[c].req \notin jailed, TakeChild(c, next)
    PROVE  AdapterInv'
<1>1. PICK r \in Requests : r = call[c].req
    BY Zenon, CallFacts
<1>2. UNCHANGED <<proc, orphan, record, handle, asked, tick, crashes, jailed>>
    BY Zenon DEF TakeChild
<1>3. CASE Goto(c, "open") /\ UNCHANGED live
    BY Zenon, <1>2, <1>3, OpenKeeps
<1>4. CASE /\ Held(c) /\ live' = Unheld(c)
           /\ call' = [call EXCEPT ![c].child = TRUE, ![c].token = FALSE, ![c].at = next]
    <2>1. /\ Types /\ r \in Instances /\ ~Unborn(r) /\ PidOf(r) \in Pids /\ call[c] \in Calls
          /\ KindOf(r) \in Kinds /\ call[c].ans = "none" /\ r \in asked /\ KeptWell(r)
        BY Zenon, <1>1, CallFacts, ControlFacts, ResolvedFacts DEF KindOf, Kinds
    <2>2. Kept(r)
        BY Zenon, <1>1, <1>4, <2>1 DEF Held, Kept
    <2>3. Work(c, r)
        BY Zenon, <1>1, <1>2, <1>4, <2>2 DEF Work, Unheld
    <2>4. r \notin orphan /\ (r \notin jailed => Present(r))
        BY Zenon, <2>1, <2>2 DEF KeptWell
    <2>5. ~Kept(r)'
        <3>1. \A k \in Kinds, p \in Pids :
                 live'[k][p] = IF k = KindOf(r) /\ p = PidOf(r) THEN Nobody ELSE live[k][p]
            BY Zenon, <1>1, <1>4, <2>1 DEF Unheld, Types
        <3>2. Nobody # r
            BY Zenon, ProcessAssumption DEF Instances
        <3>3. \A k \in Kinds, p \in Pids : live[k][p] = r => k = KindOf(r) /\ p = PidOf(r)
            BY Zenon, <2>1 DEF KeptWell
        <3> QED
            BY <3>1, <3>2, <3>3 DEF Kept
    <2> DEFINE x == call[c]
               y == [x EXCEPT !.child = TRUE, !.token = FALSE, !.at = next]
    <2>6. /\ y \in Calls /\ y.op = x.op /\ y.req = r /\ y.at = next
          /\ y.child = TRUE /\ y.token = FALSE /\ y.ans = "none"
        BY Zenon, <1>1, <2>1 DEF Calls, Places
    <2>7. call' = [call EXCEPT ![c] = y]
        BY Zenon, <1>4
    <2> HIDE DEF y
    <2>8. /\ call' \in [Callers -> Calls] /\ call'[c] = y
          /\ \A d \in Callers : d # c => call'[d] = call[d]
        BY Zenon, <2>1, <2>6, <2>7 DEF Types
    <2>9. PICK z \in Calls : z = y
        BY Zenon, <2>6
    <2>10. Row(z)'
        <3>1. ~Unborn(r)' /\ (r \notin jailed => Present(r)')
            BY Zenon, <1>2, <2>1, <2>4 DEF Unborn, Present
        <3>2. ControlRow(z)'
            BY Zenon, <1>1, <1>2, <2>4, <2>5, <2>6, <2>9, <3>1 DEF ControlRow
        <3> QED
            BY Zenon, <1>2, <2>1, <2>6, <2>9, <3>1, <3>2 DEF Row
    <2>11. Row(call[c])'
        BY Zenon, <2>8, <2>9, <2>10
    <2>12. CallStep(c, r)
        BY Zenon, <2>2, <2>6, <2>8, <2>11 DEF CallStep
    <2> QED
        BY Zenon, <1>1, <2>3, <2>12, Works
<1> QED
    BY Zenon, <1>1, <1>3, <1>4 DEF TakeChild

\* What an unpinned process means to the call.
LEMMA UnpinnedKeeps ==
    ASSUME AdapterInv, NEW c \in Callers, call[c].at \in {"open", "stat", "environ"},
           NEW outcome \in {"gone", "mismatch"},
           outcome = "gone" => proc[call[c].req].state = "gone",
           Unpinned(c, outcome),
           UNCHANGED <<orphan, live, record, handle, asked, tick, crashes, jailed>>
    PROVE  AdapterInv'
<1>1. PICK r \in Requests : r = call[c].req
    BY Zenon, CallFacts
<1>2. /\ Types /\ r \in Instances /\ ~Unborn(r) /\ call[c] \in Calls
      /\ call[c].op \in Operations \ {"start"} /\ call[c].ans = "none" /\ r \in asked
      /\ call[c].child \in BOOLEAN /\ ControlRow(call[c])
    BY Zenon, <1>1, CallFacts, ControlFacts, ResolvedFacts
<1>3. /\ proc' = proc \/ (proc' = Reaped(r) /\ call[c].child)
      /\ outcome = "gone" => proc'[r].state = "gone"
    BY Zenon, <1>1, <1>2 DEF Unpinned, Reaped, Types, Processes
<1>4. call[c].child => ~Kept(r) /\ call[c].op # "interrupt"
    BY Zenon, <1>1, <1>2 DEF ControlRow
<1>5. Work(c, r)
    BY Zenon, <1>2, <1>3, <1>4 DEF Work
<1>6. CASE call[c].op # "interrupt"
    <2> DEFINE ans == IF outcome = "gone" THEN "ended"
                      ELSE IF call[c].op = "collect" THEN "err" ELSE "unknown"
    <2>1. Presence(c, ans)
        BY Zenon, <1>6 DEF Unpinned
    <2>2. /\ ans \in {"running", "ended", "unknown", "err"}
          /\ ans = "ended" => proc'[r].state \in {"zombie", "gone"}
        BY Zenon, <1>3
    <2> HIDE DEF ans
    <2> QED
        BY Zenon, <1>1, <1>5, <2>1, <2>2, PresenceEnds
<1>7. CASE call[c].op = "interrupt"
    <2>1. call[c].child = FALSE /\ proc' = proc
        BY Zenon, <1>2, <1>3, <1>4, <1>7
    <2> DEFINE x == call[c]
               y == [x EXCEPT !.op = "observe", !.at = "parse", !.birth = NoBirth, !.fd = Nobody,
                              !.token = TRUE, !.source = NoHandle]
    <2>2. /\ y \in Calls /\ y.op = "observe" /\ y.req = r /\ y.at = "parse"
          /\ y.child = FALSE /\ y.token = TRUE /\ y.ans = "none"
        BY Zenon, <1>1, <1>2, <2>1, HandleFacts DEF Calls, Places, Operations
    <2>3. call' = [call EXCEPT ![c] = y]
        BY Zenon, <1>7 DEF Unpinned
    <2> HIDE DEF y
    <2>4. /\ call' \in [Callers -> Calls] /\ call'[c] = y
          /\ \A d \in Callers : d # c => call'[d] = call[d]
        BY Zenon, <1>2, <2>2, <2>3 DEF Types
    <2>5. PICK z \in Calls : z = y
        BY Zenon, <2>2
    <2>6. Row(z)
        <3>1. ControlRow(z)
            BY Zenon, <2>2, <2>5 DEF ControlRow
        <3> QED
            BY Zenon, <1>2, <2>2, <2>5, <3>1 DEF Row
    <2> QED
        BY Zenon, <1>1, <1>7, <2>1, <2>2, <2>4, <2>5, <2>6, Thinks
<1> QED
    BY Zenon, <1>6, <1>7

\* pidfd_open: the descriptor is that of whoever has the number.
LEMMA PidfdKeeps ==
    ASSUME AdapterInv, NEW c \in Callers, pidfd_open(c)
    PROVE  AdapterInv'
<1>1. PICK r \in Requests : r = call[c].req
    BY Zenon, CallFacts DEF pidfd_open, At
<1>2. /\ call[c].at = "open"
      /\ UNCHANGED <<orphan, live, record, handle, asked, tick, crashes, jailed>>
    BY Zenon DEF pidfd_open, At
<1>3. PICK o : o = Occupant(PidOf(r))
    BY Zenon
<1>4. /\ Types /\ ~Unborn(r) /\ call[c] \in Calls /\ call[c].ans = "none" /\ r \in asked
      /\ call[c].op \in Operations \ {"start"} /\ ControlRow(call[c])
      /\ o # Nobody => o \in Instances
      /\ o = Nobody => proc[r].state = "gone"
      /\ Present(r) => o = r
    BY Zenon, <1>1, <1>2, <1>3, CallFacts, ControlFacts, ResolvedFacts
<1>5. CASE o = Nobody /\ Unpinned(c, "gone")
    BY Zenon, <1>1, <1>2, <1>4, <1>5, UnpinnedKeeps
<1>6. CASE /\ o # Nobody /\ call' = [call EXCEPT ![c].fd = o, ![c].at = "stat"]
           /\ UNCHANGED proc
    <2> DEFINE x == call[c]
               y == [x EXCEPT !.fd = o, !.at = "stat"]
    <2>1. /\ y \in Calls /\ y.op = x.op /\ y.req = r /\ y.at = "stat" /\ y.fd = o
          /\ y.child = x.child /\ y.token = x.token /\ y.ans = "none"
        BY Zenon, <1>1, <1>4, <1>6 DEF Calls, Places
    <2>2. call' = [call EXCEPT ![c] = y]
        BY Zenon, <1>6
    <2> HIDE DEF y
    <2>3. /\ call' \in [Callers -> Calls] /\ call'[c] = y
          /\ \A d \in Callers : d # c => call'[d] = call[d]
        BY Zenon, <1>4, <2>1, <2>2 DEF Types
    <2>4. PICK z \in Calls : z = y
        BY Zenon, <2>1
    <2>5. /\ x.child => /\ x.op \in {"terminate", "collect"} /\ ~x.token
                        /\ r \notin orphan /\ ~Kept(r) /\ r \notin jailed /\ Present(r)
          /\ x.op # "interrupt" => x.token \/ x.child
        BY Zenon, <1>1, <1>2, <1>4 DEF ControlRow
    <2>6. Alive(r) => Present(r)
        BY Zenon DEF Alive, Present
    <2>7. Row(z)
        <3>1. ControlRow(z)
            BY Zenon, <1>4, <2>1, <2>4, <2>5, <2>6 DEF ControlRow
        <3> QED
            BY Zenon, <1>4, <2>1, <2>4, <3>1 DEF Row, Operations
    <2> QED
        BY Zenon, <1>1, <1>2, <1>4, <1>6, <2>1, <2>3, <2>4, <2>7, Thinks DEF Operations
<1> QED
    BY Zenon, <1>1, <1>3, <1>5, <1>6 DEF pidfd_open

\* A call that pins goes from one proof to the next.
LEMMA PinGoes ==
    ASSUME AdapterInv, NEW c \in Callers, NEW r \in Requests, r = call[c].req,
           call[c].at \in {"stat", "environ"}, NEW next \in {"environ", "pinned"},
           Goto(c, next),
           next = "environ" => call[c].token = TRUE /\ call[c].at = "stat" /\ call[c].child = FALSE,
           next = "pinned" => call[c].op = "interrupt" \/ call[c].fd = r,
           UNCHANGED <<proc, orphan, live, record, handle, asked, tick, crashes, jailed>>
    PROVE  AdapterInv'
<1>1. /\ ~Unborn(r) /\ call[c] \in Calls /\ call[c].ans = "none" /\ r \in asked
      /\ call[c].op \in Operations \ {"start"} /\ ControlRow(call[c])
    BY Zenon, CallFacts, ControlFacts, ResolvedFacts
<1>2. ASSUME NEW y \in Calls, y.op = call[c].op, y.req = r, y.at = next, y.fd = call[c].fd,
             y.token = call[c].token, y.child = call[c].child, y.ans = "none"
      PROVE  Row(y)'
    <2>1. /\ ~Unborn(r)' /\ (Alive(r)' <=> Alive(r)) /\ (Present(r)' <=> Present(r))
          /\ Kept(r)' <=> Kept(r)
        BY Zenon, <1>1 DEF Unborn, Alive, Present, Kept
    <2>2. ControlRow(y)'
        BY Zenon, <1>1, <1>2, <2>1 DEF ControlRow
    <2> QED
        BY Zenon, <1>1, <1>2, <2>1, <2>2 DEF Row, Operations
<1>3. RowAfter(c, next)
    BY <1>1, <1>2, Zenon DEF RowAfter, Resumes
<1>4. CallStep(c, r)
    BY <1>3, Went, PlacesFacts, Zenon
<1>5. Work(c, r)
    BY NoWork, Zenon
<1>6. call[c].op # "idle"
    BY Zenon, <1>1 DEF Operations
<1> QED
    BY <1>4, <1>5, <1>6, Works, Zenon

LEMMA StatKeeps ==
    ASSUME AdapterInv, NEW c \in Callers, process_stat(c)
    PROVE  AdapterInv'
<1>1. PICK r \in Requests : r = call[c].req
    BY Zenon, CallFacts DEF process_stat, At
<1>2. /\ call[c].at = "stat"
      /\ UNCHANGED <<orphan, live, record, handle, asked, tick, crashes, jailed>>
    BY Zenon DEF process_stat, At
<1>3. PICK o : o = Occupant(PidOf(r))
    BY Zenon
<1>4. /\ ControlRow(call[c]) /\ (o = Nobody => proc[r].state = "gone")
      /\ call[c].child \in BOOLEAN /\ call[c].token \in BOOLEAN
    BY Zenon, <1>1, <1>2, <1>3, ControlFacts, ResolvedFacts
<1>5. CASE o = Nobody /\ Unpinned(c, "gone")
    BY Zenon, <1>1, <1>2, <1>4, <1>5, UnpinnedKeeps
<1>6. CASE Unpinned(c, "mismatch")
    BY Zenon, <1>2, <1>6, UnpinnedKeeps
<1>7. CASE Goto(c, IF call[c].token THEN "environ" ELSE "pinned") /\ UNCHANGED proc
    <2>1. CASE call[c].token
        <3>1. call[c].token = TRUE /\ call[c].child = FALSE
            BY Zenon, <1>4, <2>1 DEF ControlRow
        <3>2. Goto(c, "environ")
            BY Zenon, <1>7, <2>1
        <3> QED
            BY Zenon, <1>1, <1>2, <1>7, <3>1, <3>2, PinGoes
    <2>2. CASE ~call[c].token
        <3>1. call[c].op = "interrupt" \/ call[c].fd = r
            BY Zenon, <1>1, <1>2, <1>4, <2>2 DEF ControlRow
        <3>2. Goto(c, "pinned")
            BY Zenon, <1>7, <2>2
        <3> QED
            BY Zenon, <1>1, <1>2, <1>7, <3>1, <3>2, PinGoes
    <2> QED
        BY Zenon, <2>1, <2>2
<1> QED
    BY Zenon, <1>1, <1>3, <1>5, <1>6, <1>7 DEF process_stat

LEMMA EnvironKeeps ==
    ASSUME AdapterInv, NEW c \in Callers, instance_token_matches(c)
    PROVE  AdapterInv'
<1>1. PICK r \in Requests : r = call[c].req
    BY Zenon, CallFacts DEF instance_token_matches, At
<1>2. /\ call[c].at = "environ"
      /\ UNCHANGED <<orphan, live, record, handle, asked, tick, crashes, jailed>>
    BY Zenon DEF instance_token_matches, At
<1>3. CASE Answer(c, "err", NoHandle) /\ UNCHANGED proc
    <2>1. Work(c, r)
        BY Zenon, <1>2, <1>3, NoWork
    <2> QED
        BY Zenon, <1>1, <1>2, <1>3, <2>1, ControlEnds, HandleFacts
<1>4. CASE Unpinned(c, "mismatch")
    BY Zenon, <1>2, <1>4, UnpinnedKeeps
<1>5. CASE Alive(r) /\ Goto(c, "pinned") /\ UNCHANGED proc
    <2>1. call[c].fd = r
        BY Zenon, <1>1, <1>2, <1>5, ControlFacts DEF ControlRow
    <2> QED
        BY Zenon, <1>1, <1>2, <1>5, <2>1, PinGoes
<1> QED
    BY Zenon, <1>1, <1>3, <1>4, <1>5 DEF instance_token_matches

LEMMA AliveKeeps ==
    ASSUME AdapterInv, NEW c \in Callers, is_alive(c)
    PROVE  AdapterInv'
<1>1. PICK r \in Requests : r = call[c].req
    BY Zenon, CallFacts DEF is_alive, At
<1>2. /\ call[c].at = "pinned" /\ call[c].op # "interrupt"
      /\ Presence(c, IF Alive(call[c].fd) THEN "running" ELSE "ended")
      /\ UNCHANGED <<proc, orphan, live, record, handle, asked, tick, crashes, jailed>>
    BY Zenon DEF is_alive, At
<1>3. Work(c, r)
    BY Zenon, <1>2, NoWork
<1>4. call[c].fd = r /\ ~Unborn(r) /\ Types /\ r \in Instances
    BY Zenon, <1>1, <1>2, CallFacts, ControlFacts, ResolvedFacts DEF ControlRow
<1>5. ~Alive(r) => proc'[r].state \in {"zombie", "gone"}
    BY Zenon, <1>2, <1>4 DEF Alive, Unborn, Types, Processes
<1>6. CASE Alive(r)
    <2>1. Presence(c, "running")
        BY Zenon, <1>2, <1>4, <1>6
    <2> QED
        BY Zenon, <1>1, <1>2, <1>3, <2>1, PresenceEnds
<1>7. CASE ~Alive(r)
    <2>1. Presence(c, "ended")
        BY Zenon, <1>2, <1>4, <1>7
    <2> QED
        BY Zenon, <1>1, <1>2, <1>3, <1>5, <1>7, <2>1, PresenceEnds
<1> QED
    BY Zenon, <1>6, <1>7

\* After the signal, interrupt is an observe.
LEMMA SignalKeeps ==
    ASSUME AdapterInv, NEW c \in Callers, interrupt(c)
    PROVE  AdapterInv'
<1>1. PICK r \in Requests : r = call[c].req
    BY Zenon, CallFacts DEF interrupt, At
<1>2. /\ call[c].at = "pinned" /\ call[c].op = "interrupt"
      /\ UNCHANGED <<proc, orphan, live, record, handle, asked, tick, crashes, jailed>>
    BY Zenon DEF interrupt, At
<1>3. Types /\ r \in asked
    BY Zenon, <1>1, <1>2, CallFacts
<1> DEFINE y == [Idle EXCEPT !.op = "observe", !.req = r, !.at = "parse"]
<1>4. /\ y \in Calls /\ y.op = "observe" /\ y.req = r /\ y.at = "parse"
      /\ y.child = FALSE /\ y.token = TRUE /\ y.ans = "none" /\ y.hint = NoHandle
    BY Zenon, HandleFacts DEF Idle, Calls, Places, Operations
<1>5. call' = [call EXCEPT ![c] = y]
    BY Zenon, <1>1 DEF interrupt
<1> HIDE DEF y
<1>6. /\ call' \in [Callers -> Calls] /\ call'[c] = y
      /\ \A d \in Callers : d # c => call'[d] = call[d]
    BY Zenon, <1>3, <1>4, <1>5 DEF Types
<1>7. PICK z \in Calls : z = y
    BY Zenon, <1>4
<1>8. Row(z)
    <2>1. ControlRow(z)
        BY Zenon, <1>4, <1>7 DEF ControlRow
    <2> QED
        BY Zenon, <1>3, <1>4, <1>7, <2>1 DEF Row
<1> QED
    BY Zenon, <1>1, <1>2, <1>4, <1>6, <1>7, <1>8, Thinks

LEMMA KillKeeps ==
    ASSUME AdapterInv, NEW c \in Callers, kill(c)
    PROVE  AdapterInv'
<1>1. PICK r \in Requests : r = call[c].req
    BY Zenon, CallFacts DEF kill, At
<1>2. /\ call[c].at = "pinned" /\ call[c].op \in {"terminate", "collect"} /\ Goto(c, "wait")
      /\ UNCHANGED <<proc, orphan, live, record, handle, asked, tick, crashes, jailed>>
    BY Zenon DEF kill, At
<1>3. /\ ~Unborn(r) /\ call[c].ans = "none" /\ r \in asked
      /\ ControlRow(call[c])
    BY Zenon, <1>1, <1>2, CallFacts, ControlFacts, ResolvedFacts
<1>4. ASSUME NEW y \in Calls, y.op = call[c].op, y.req = r, y.at = "wait", y.fd = call[c].fd,
             y.token = call[c].token, y.child = call[c].child, y.ans = "none"
      PROVE  Row(y)'
    <2>1. /\ ~Unborn(r)' /\ (Present(r)' <=> Present(r)) /\ (Kept(r)' <=> Kept(r))
        BY Zenon, <1>2, <1>3 DEF Unborn, Present, Kept
    <2>2. ControlRow(y)'
        BY Zenon, <1>1, <1>2, <1>3, <1>4, <2>1 DEF ControlRow
    <2> QED
        BY Zenon, <1>2, <1>3, <1>4, <2>1, <2>2 DEF Row
<1>5. RowAfter(c, "wait")
    BY <1>1, <1>3, <1>4, Zenon DEF RowAfter, Resumes
<1>6. CallStep(c, r)
    BY <1>1, <1>2, <1>5, Went, PlacesFacts, Zenon
<1>7. Work(c, r)
    BY <1>2, NoWork, Zenon
<1> QED
    BY <1>1, <1>2, <1>6, <1>7, Works, Zenon

LEMMA WaitKeeps ==
    ASSUME AdapterInv, NEW c \in Callers, wait_exit(c)
    PROVE  AdapterInv'
<1>1. PICK r \in Requests : r = call[c].req
    BY Zenon, CallFacts DEF wait_exit, At
<1>2. /\ call[c].at = "wait" /\ Exited(c) /\ Answer(c, "ended", NoHandle)
      /\ UNCHANGED <<orphan, live, record, handle, asked, tick, crashes, jailed>>
    BY Zenon DEF wait_exit, At
<1>3. ControlRow(call[c]) /\ ~Unborn(r) /\ Types /\ r \in Instances
    BY Zenon, <1>1, <1>2, CallFacts, ControlFacts, ResolvedFacts
<1>4. CASE call[c].child
    <2>1. proc' = Reaped(r) /\ ~Kept(r)
        BY Zenon, <1>1, <1>3, <1>4 DEF wait_exit, ControlRow
    <2>2. Work(c, r)
        BY Zenon, <1>2, <1>3, <1>4, <2>1 DEF Work
    <2>3. proc'[r].state = "gone"
        BY Zenon, <1>3, <2>1 DEF Reaped, Types, Processes
    <2> QED
        BY Zenon, <1>1, <1>2, <2>2, <2>3, ControlEnds, HandleFacts
<1>5. CASE ~call[c].child
    <2>1. proc' = proc /\ call[c].fd = r /\ ~Alive(r)
        BY Zenon, <1>1, <1>2, <1>3, <1>5 DEF wait_exit, ControlRow, Exited
    <2>2. Work(c, r)
        BY Zenon, <1>2, <2>1, NoWork
    <2>3. proc'[r].state \in {"zombie", "gone"}
        BY Zenon, <1>3, <2>1 DEF Alive, Unborn, Types, Processes
    <2> QED
        BY Zenon, <1>1, <1>2, <2>2, <2>3, ControlEnds, HandleFacts
<1> QED
    BY Zenon, <1>4, <1>5

LEMMA FailKeeps ==
    ASSUME AdapterInv, NEW c \in Callers, Fail(c)
    PROVE  AdapterInv'
<1>1. /\ call[c].at \in {"lookup", "open", "stat", "pinned", "wait"}
      /\ Answer(c, "err", NoHandle)
      /\ UNCHANGED <<orphan, record, handle, asked, tick, crashes, jailed>>
    BY Zenon DEF Fail
<1>2. PICK r \in Requests : r = call[c].req
    BY Zenon, <1>1, CallFacts
<1>3. /\ ControlRow(call[c]) /\ ~Unborn(r)
    BY Zenon, <1>1, <1>2, ControlFacts, ResolvedFacts
<1>4. call[c].child => ~Kept(r) /\ r \notin orphan /\ (r \notin jailed => Present(r))
    BY Zenon, <1>2, <1>3 DEF ControlRow
<1>5. CASE call[c].op = "collect" /\ call[c].child
    <2>1. live' = [live EXCEPT ![KindOf(r)][PidOf(r)] = r] /\ proc' = proc
        BY Zenon, <1>2, <1>5 DEF Fail
    <2>2. Work(c, r)
        BY Zenon, <1>1, <1>3, <1>4, <1>5, <2>1 DEF Work
    <2> QED
        BY Zenon, <1>1, <1>2, <2>2, ControlEnds, HandleFacts
<1>6. CASE ~(call[c].op = "collect" /\ call[c].child)
    <2>1. live' = live /\ (proc' = proc \/ (proc' = Reaped(r) /\ call[c].child))
        BY Zenon, <1>2, <1>6 DEF Fail
    <2>2. Work(c, r)
        BY Zenon, <1>1, <1>3, <1>4, <2>1 DEF Work
    <2> QED
        BY Zenon, <1>1, <1>2, <2>2, ControlEnds, HandleFacts
<1> QED
    BY Zenon, <1>5, <1>6

----------------------------------------------------------------------------
(* The daemon and the operating system *)

LEMMA AdmitKeeps ==
    ASSUME AdapterInv, NEW c \in Callers, admit_start(c) \/ admit_with_handle(c)
    PROVE  AdapterInv'
<1>1. /\ call[c].at = "return" /\ call' = [call EXCEPT ![c].ans = "err"]
      /\ UNCHANGED <<proc, orphan, live, record, handle, asked, tick, crashes, jailed>>
    BY Zenon DEF admit_start, admit_with_handle, At
<1>2. Types /\ call[c] \in Calls /\ Row(call[c]) /\ call[c].op # "idle"
    BY Zenon, <1>1, CallFacts
<1> DEFINE x == call[c]
           y == [x EXCEPT !.ans = "err"]
<1>3. /\ y \in Calls /\ y.op = x.op /\ y.req = x.req /\ y.at = x.at /\ y.fd = x.fd
      /\ y.child = x.child /\ y.token = x.token /\ y.running = x.running
      /\ y.ans = "err" /\ y.hint = x.hint
    BY Zenon, <1>2 DEF Calls
<1>4. call' = [call EXCEPT ![c] = y]
    BY Zenon, <1>1
<1> HIDE DEF y
<1>5. /\ call' \in [Callers -> Calls] /\ call'[c] = y
      /\ \A d \in Callers : d # c => call'[d] = call[d]
    BY Zenon, <1>2, <1>3, <1>4 DEF Types
<1>6. PICK z \in Calls : z = y
    BY Zenon, <1>3
<1>7. Row(z)
    <2>1. x.op = "start" => StartRow(z)
        BY Zenon, <1>1, <1>2, <1>3, <1>6 DEF Row, StartRow
    <2>2. x.op # "start" => ControlRow(z)
        BY Zenon, <1>1, <1>2, <1>3, <1>6 DEF Row, ControlRow
    <2> QED
        BY Zenon, <1>1, <1>2, <1>3, <1>6, <2>1, <2>2 DEF Row
<1> QED
    BY <1>1, <1>2, <1>3, <1>5, <1>6, <1>7, Thinks

LEMMA ReturnKeeps ==
    ASSUME AdapterInv, NEW c \in Callers, Return(c)
    PROVE  AdapterInv'
<1>1. PICK r \in Requests : r = call[c].req
    BY Zenon, CallFacts DEF Return, At
<1>2. /\ call[c].at = "return" /\ call' = [call EXCEPT ![c] = Idle]
      /\ handle' = [handle EXCEPT ![r] = IF call[c].hint = NoHandle THEN @ ELSE call[c].hint]
      /\ UNCHANGED <<proc, orphan, live, record, asked, tick, crashes, jailed>>
    BY Zenon, <1>1 DEF Return, At
<1>3. Types /\ World /\ KeptWell(r) /\ call[c].op # "idle" /\ Row(call[c]) /\ call[c] \in Calls
    BY Zenon, <1>1, <1>2, CallFacts
<1>4. call[c].hint \in Handles /\ (call[c].hint # NoHandle => ~Unborn(r))
    BY Zenon, <1>1, <1>3 DEF Row, Calls
<1>5. /\ handle' \in [Requests -> Handles]
      /\ \A q \in Requests : q # r => handle'[q] = handle[q]
      /\ handle'[r] # NoHandle => ~Unborn(r)
    <2>1. PICK new \in Handles :
             /\ handle' = [handle EXCEPT ![r] = new] /\ new \in {handle[r], call[c].hint}
        BY Zenon, <1>2, <1>3, <1>4 DEF Types
    <2>2. handle'[r] = new /\ (new # NoHandle => ~Unborn(r))
        BY <1>3, <1>4, <2>1, Zenon DEF Types, World, Traced
    <2> QED
        BY <1>3, <2>1, <2>2, Zenon DEF Types
<1>6. /\ call' \in [Callers -> Calls] /\ call'[c] = Idle
      /\ \A d \in Callers : d # c => call'[d] = call[d]
    BY Zenon, <1>2, <1>3, IdleFacts DEF Types
<1>7. Types'
    BY Zenon, <1>2, <1>3, <1>5, <1>6 DEF Types
<1>8. World'
    <2>1. \A q \in Requests : Traced(q)' => ~Unborn(q)
        BY Zenon, <1>2, <1>3, <1>5 DEF World, Traced
    <2>2. \A i \in Instances : Moves(i) /\ (Unborn(i) => proc'[i] = proc[i])
        BY Zenon, <1>2 DEF Moves, Unborn, Alive, Present
    <2> QED
        BY Zenon, <1>2, <1>7, <2>1, <2>2, WorldKept
<1>9. Frame(c, r)
    BY Zenon, <1>2, <1>5, <1>6 DEF Frame
<1>10. Own(c, r)
    BY Zenon, <1>2 DEF Own, Moves, Unborn, Alive, Present, Kept
<1>11. KeptWell(r)'
    BY Zenon, <1>2, <1>3 DEF KeptWell, Kept, KindOf, PidOf, Unborn, Present
<1>12. Row(call[c])'
    BY SMTT(30), <1>6 DEF Row, Idle
<1> QED
    BY Zenon, <1>1, <1>3, <1>6, <1>7, <1>8, <1>9, <1>10, <1>11, <1>12, IdleFacts, Acts

LEMMA BeginKeeps ==
    ASSUME AdapterInv, NEW c \in Callers, NEW op \in Operations, NEW r \in Requests,
           Begin(c, op, r)
    PROVE  AdapterInv'
<1> DEFINE at == IF op # "start" THEN "parse" ELSE IF r \in jailed THEN "prepare" ELSE "spawn"
           y == [Idle EXCEPT !.op = op, !.req = r, !.at = at]
<1>1. /\ call' = [call EXCEPT ![c] = y]
      /\ asked' = (IF op = "start" THEN asked \cup {r} ELSE asked)
      /\ UNCHANGED <<proc, orphan, live, record, handle, tick, crashes, jailed>>
    BY Zenon DEF Begin
<1>2. Types /\ World /\ \A d \in Callers : call[d] \in Calls /\ Row(call[d])
    BY Zenon DEF AdapterInv, Types
<1>3. op # "start" => r \in asked
    <2>1. handle[r] # NoHandle => r \in asked
        BY Zenon, <1>2 DEF World, Traced
    <2> QED
        BY Zenon, <2>1 DEF Begin, Operations
<1>4. op = "start" => r \notin asked /\ Unborn(r) /\ handle[r] = NoHandle
    BY Zenon, <1>2 DEF Begin, World, Traced
<1>5. op = "start" => r \notin orphan /\ ~Kept(r)
    BY Zenon, <1>2, <1>4 DEF World, Traced, AdapterInv, KeptWell
<1>6. \A d \in Callers : call[d].op # "idle" /\ call[d].req = r => call[d].op # "start" /\ op # "start"
    <2> SUFFICES ASSUME NEW d \in Callers, call[d].op # "idle", call[d].req = r
                 PROVE  call[d].op # "start" /\ op # "start"
        BY Zenon
    <2>1. r \in asked /\ (call[d].op = "start" => handle[r] = NoHandle)
        BY Zenon, <1>2 DEF Row, StartRow
    <2> QED
        BY Zenon, <1>4, <2>1 DEF Begin, Operations
<1>7. /\ y \in Calls /\ y.op = op /\ y.req = r /\ y.at = at /\ y.child = FALSE
      /\ y.token = TRUE /\ y.ans = "none" /\ y.hint = NoHandle
    <2>1. at \in Places
        BY Zenon DEF Places
    <2> HIDE DEF at
    <2> QED
        BY Zenon, <2>1, HandleFacts DEF Idle, Calls
<1> HIDE DEF y
<1>8. /\ call' \in [Callers -> Calls] /\ call'[c] = y
      /\ \A d \in Callers : d # c => call'[d] = call[d]
    BY Zenon, <1>1, <1>2, <1>7 DEF Types
<1>9. Types'
    BY Zenon, <1>1, <1>2, <1>8 DEF Types
<1>10. World'
    BY Zenon, <1>1, <1>2 DEF World, Traced, Unborn, Present
<1>11. \A q \in Requests : KeptWell(q)'
    BY SMTT(30), <1>1 DEF AdapterInv, KeptWell, Kept, KindOf, PidOf, Unborn, Present
<1>12. PICK z \in Calls : z = y
    BY <1>7, Zenon
<1>r. Row(z)'
    <2>1. r \in asked' /\ op # "idle"
        BY Zenon, <1>1, <1>3 DEF Operations
    <2>2. ASSUME op = "start" PROVE StartRow(z)'
        <3>1. Unborn(r)' /\ handle'[r] = NoHandle /\ r \notin orphan' /\ ~Kept(r)'
            BY <1>1, <1>4, <1>5, <2>2, Zenon DEF Unborn, Kept
        <3>2. z.at \in {"prepare", "spawn"}
            BY Zenon, <1>7, <1>12, <2>2
        <3> QED
            BY Zenon, <1>7, <1>12, <3>1, <3>2 DEF StartRow
    <2>3. ASSUME op # "start" PROVE ControlRow(z)'
        <3>1. z.at = "parse"
            BY Zenon, <1>7, <1>12, <2>3
        <3> QED
            BY Zenon, <1>7, <1>12, <3>1 DEF ControlRow
    <2>4. z.at # "idle"
        BY Zenon, <1>7, <1>12
    <2> QED
        BY <1>7, <1>12, <2>1, <2>2, <2>3, <2>4, Zenon DEF Row
<1>13. ASSUME NEW d \in Callers PROVE Row(call[d])'
    <2>1. CASE d = c
        <3>1. call'[d] = z
            BY <1>8, <1>12, <2>1, Zenon
        <3> QED
            BY <1>r, <3>1, Zenon
    <2>2. CASE d # c
        <3>1. PICK x \in Calls : x = call[d] /\ x = call'[d] /\ Row(x)
            BY Zenon, <1>2, <1>8, <2>2
        <3>2. Row(x)'
            BY Zenon, <1>1, <3>1 DEF Row, StartRow, ControlRow, Unborn, Present, Alive, Kept
        <3> QED
            BY Zenon, <3>1, <3>2
    <2> QED
        BY Zenon, <2>1, <2>2
<1>14. \A d, e \in Callers : d # e => Apart(call'[d], call'[e])
    <2> SUFFICES ASSUME NEW d \in Callers, NEW e \in Callers, d # e
                 PROVE  Apart(call'[d], call'[e])
        BY Zenon
    <2>1. CASE d = c
        BY Zenon, <1>6, <1>7, <1>8, <2>1 DEF Apart
    <2>2. CASE e = c
        BY Zenon, <1>6, <1>7, <1>8, <2>2 DEF Apart
    <2>3. CASE d # c /\ e # c
        BY Zenon, <1>8, <2>3 DEF AdapterInv
    <2> QED
        BY Zenon, <2>1, <2>2, <2>3
<1> QED
    BY Zenon, <1>9, <1>10, <1>11, <1>13, <1>14 DEF AdapterInv

LEMMA CrashKeeps ==
    ASSUME AdapterInv, Crash
    PROVE  AdapterInv'
<1>1. /\ crashes' = crashes + 1 /\ call' = [c \in Callers |-> Idle]
      /\ live' = [k \in Kinds |-> [p \in Pids |-> Nobody]]
      /\ orphan' = {r \in Requests : Present(r)}
      /\ UNCHANGED <<proc, record, handle, asked, tick, jailed>>
    BY Zenon DEF Crash
<1>2. Types /\ World
    BY Zenon DEF AdapterInv
<1>3. Types'
    BY SMTT(30), <1>1, <1>2, IdleFacts DEF Types
<1>4. World'
    BY Zenon, <1>1, <1>2 DEF World, Traced, Unborn, Present
<1>5. \A k \in Kinds, p \in Pids : live'[k][p] \notin Requests
    BY Zenon, <1>1, ProcessAssumption DEF Instances
<1>6. \A r \in Requests : KeptWell(r)'
    BY Zenon, <1>5 DEF KeptWell, Kept
<1>7. \A c \in Callers : call'[c].op = "idle" /\ Row(call[c])'
    <2> SUFFICES ASSUME NEW c \in Callers PROVE call'[c].op = "idle" /\ Row(call[c])'
        BY Zenon
    <2>1. call'[c] = Idle
        BY Zenon, <1>1
    <2> QED
        BY SMTT(30), <2>1 DEF Row, Idle
<1>8. \A c, d \in Callers : c # d => Apart(call'[c], call'[d])
    BY Zenon, <1>7 DEF Apart
<1> QED
    BY Zenon, <1>3, <1>4, <1>6, <1>7, <1>8 DEF AdapterInv

\* What the operating system does to a process.
Ages(i) ==
    \/ proc'[i] = proc[i]
    \/ /\ proc'[i].pid = proc[i].pid /\ proc'[i].birth = proc[i].birth
       /\ \/ Alive(i) /\ proc'[i].state = "zombie"
          \/ Alive(i) /\ proc'[i].state = "gone" /\ i \in Strangers
          \/ proc[i].state = "zombie" /\ proc'[i].state = "gone" /\ i \in orphan

\* The clock ticks, a process ends, an orphan is reaped.
LEMMA SystemKeeps ==
    ASSUME AdapterInv,
           \/ Tick
           \/ \E i \in Instances : Exit(i)
           \/ \E r \in Requests : ReapOrphan(r)
    PROVE  AdapterInv'
<1>1. UNCHANGED <<call, live, orphan, record, handle, asked, jailed, crashes>>
    BY Zenon DEF Tick, Exit, ReapOrphan
<1>2. Types /\ World
    BY Zenon DEF AdapterInv
<1>3. tick' \in Births
    BY <1>2, ProcessAssumption DEF Tick, Exit, ReapOrphan, Types, Births
<1>4. proc' \in [Instances -> Processes] /\ \A i \in Instances : Ages(i)
    <2>1. CASE Tick
        BY Zenon, <1>2, <2>1 DEF Tick, Types, Ages
    <2>2. ASSUME NEW i \in Instances, Exit(i)
          PROVE  proc' \in [Instances -> Processes] /\ \A j \in Instances : Ages(j)
        BY <1>2, <2>2 DEF Exit, Types, Processes, Ages
    <2>3. ASSUME NEW r \in Requests, ReapOrphan(r)
          PROVE  proc' \in [Instances -> Processes] /\ \A j \in Instances : Ages(j)
        BY <1>2, <2>3 DEF ReapOrphan, Reaped, Types, Processes, Instances, Ages
    <2> QED
        BY Zenon, <2>1, <2>2, <2>3
<1>5. \A i \in Instances : Moves(i) /\ (Unborn(i) => proc'[i] = proc[i])
    BY Zenon, <1>4 DEF Ages, Moves, Unborn, Alive, Present
<1>6. Types'
    BY Zenon, <1>1, <1>2, <1>3, <1>4 DEF Types
<1>7. World'
    <2>1. \A r \in Requests : Traced(r)' => ~Unborn(r)
        BY Zenon, <1>1, <1>2 DEF World, Traced
    <2> QED
        BY Zenon, <1>1, <1>5, <1>6, <2>1, WorldKept
<1>8. \A r \in Requests : /\ Moves(r) /\ (Unborn(r) => Unborn(r)')
                          /\ r \notin orphan => (Present(r) => Present(r)')
    <2>1. \A r \in Requests : r \in Instances /\ r \notin Strangers
        BY Zenon, ProcessAssumption DEF Instances
    <2> QED
        BY Zenon, <1>4, <1>5, <2>1 DEF Ages, Unborn, Alive, Present
<1> QED
    BY Zenon, <1>1, <1>6, <1>7, <1>8, SystemStep

\* A stranger is born under a free number.
LEMMA StrangerKeeps ==
    ASSUME AdapterInv, NEW i \in Strangers, NEW p \in Pids, StrangerBorn(i, p)
    PROVE  AdapterInv'
<1>1. /\ Unborn(i) /\ Occupant(p) = Nobody
      /\ proc' = [proc EXCEPT ![i] = [pid |-> p, birth |-> tick, state |-> "running"]]
      /\ UNCHANGED <<orphan, live, record, handle, asked, call, tick, crashes, jailed>>
    BY Zenon DEF StrangerBorn, Unborn
<1>2. Types /\ World /\ i \in Instances
    BY Zenon DEF AdapterInv, Instances
<1>3. /\ proc' \in [Instances -> Processes]
      /\ proc'[i].pid = p /\ proc'[i].birth = tick /\ proc'[i].state = "running"
      /\ \A j \in Instances : j # i => proc'[j] = proc[j]
    BY Zenon, <1>1, <1>2 DEF Types, Processes
<1>4. \A j \in Instances : ~(Present(j) /\ proc[j].pid = p)
    BY Zenon, <1>1, <1>2, OccupantFacts
<1>5. \A r \in Requests : r \in Instances /\ r # i
    BY Zenon, ProcessAssumption DEF Instances
<1>6. World'
    <2>1. \A j \in Instances : ~Unborn(j)' => proc'[j].pid \in Pids /\ proc'[j].birth \in Births
        BY Zenon, <1>2, <1>3 DEF World, Unborn, Types
    <2>2. \A j, k \in Instances :
             Present(j)' /\ Present(k)' /\ proc'[j].pid = proc'[k].pid => j = k
        BY Zenon, <1>2, <1>3, <1>4 DEF World, Present
    <2>3. \A q \in Requests : (Traced(q)' => ~Unborn(q)') /\ (q \notin asked' => Unborn(q)')
        BY Zenon, <1>1, <1>2, <1>3, <1>5 DEF World, Unborn, Traced
    <2> QED
        BY Zenon, <2>1, <2>2, <2>3 DEF World
<1>7. Types'
    BY Zenon, <1>1, <1>2, <1>3 DEF Types
<1>8. \A r \in Requests : /\ Moves(r) /\ (Unborn(r) => Unborn(r)')
                          /\ r \notin orphan => (Present(r) => Present(r)')
    BY Zenon, <1>3, <1>5 DEF Moves, Unborn, Alive, Present
<1> QED
    BY Zenon, <1>1, <1>6, <1>7, <1>8, SystemStep

----------------------------------------------------------------------------
(* The invariant *)

LEMMA AdapterInit == Init => AdapterInv
<1> SUFFICES ASSUME Init PROVE AdapterInv
    BY Zenon
<1>1. Types
    BY ProcessAssumption, HandleFacts, IdleFacts DEF Init, Types, Processes, Births
<1>2. \A i \in Instances : Unborn(i)
    BY Zenon DEF Init, Unborn
<1>3. \A r \in Requests : ~Traced(r)
    BY Zenon DEF Init, Traced
<1>4. World
    BY Zenon, <1>2, <1>3 DEF World, Unborn, Present, Instances
<1>5. \A k \in Kinds, p \in Pids : live[k][p] \notin Requests
    BY Zenon, ProcessAssumption DEF Init, Instances
<1>6. \A r \in Requests : KeptWell(r)
    BY Zenon, <1>5 DEF KeptWell, Kept
<1>7. \A c \in Callers : call[c] = Idle
    BY Zenon DEF Init
<1>8. \A c, d \in Callers : c # d => Apart(call[c], call[d])
    BY Zenon, <1>7, IdleFacts DEF Apart
<1> QED
    BY Zenon, <1>1, <1>4, <1>6, <1>7, <1>8, IdleFacts DEF AdapterInv

\* Every step of a call keeps the invariant.
LEMMA CallKeeps ==
    ASSUME AdapterInv, NEW c \in Callers, Step(c)
    PROVE  AdapterInv'
<1>1. CASE \/ prepare_jail(c) \/ spawn_child(c) \/ write_locator_record(c)
           \/ process_birth_from_child(c) \/ spawn_jailed(c) \/ rewrite_locator_record(c)
           \/ JailedStart(c) \/ start_execution(c)
    BY Zenon, <1>1, PrepareKeeps, SpawnKeeps, LocateKeeps, BirthKeeps, LookKeeps, RelocateKeeps,
       JailedStartKeeps, StdinKeeps
<1>2. CASE \/ observe_execution(c) \/ reconcile_start(c) \/ JailedObserve(c)
           \/ JailedReconcile(c)
    BY Zenon, <1>2, AskKeeps DEF observe_execution, reconcile_start, JailedObserve, JailedReconcile, At
<1>3. CASE JailedInterrupt(c)
    BY Zenon, <1>3, OpenKeeps DEF JailedInterrupt, At
<1>4. CASE \/ terminate_execution(c) \/ collect_outcome(c) \/ JailedTerminate(c)
           \/ JailedCollect(c)
    BY Zenon, <1>4, TakeKeeps DEF terminate_execution, collect_outcome, JailedTerminate,
       JailedCollect, At
<1>5. CASE \/ control_parsed(c) \/ interrupt_execution(c) \/ pidfd_open(c) \/ process_stat(c)
           \/ instance_token_matches(c) \/ is_alive(c) \/ interrupt(c) \/ kill(c)
           \/ wait_exit(c) \/ Fail(c) \/ admit_start(c) \/ admit_with_handle(c) \/ Return(c)
    BY Zenon, <1>5, ParseKeeps, InterruptKeeps, PidfdKeeps, StatKeeps, EnvironKeeps, AliveKeeps,
       SignalKeeps, KillKeeps, WaitKeeps, FailKeeps, AdmitKeeps, ReturnKeeps
<1> QED
    BY Zenon, <1>1, <1>2, <1>3, <1>4, <1>5 DEF Step

LEMMA AdapterStep == AdapterInv /\ [Next]_vars => AdapterInv'
<1> SUFFICES ASSUME AdapterInv, [Next]_vars PROVE AdapterInv'
    BY Zenon
<1>1. CASE \E c \in Callers : Step(c)
    BY Zenon, <1>1, CallKeeps
<1>2. CASE \E c \in Callers, op \in Operations, r \in Requests : Begin(c, op, r)
    BY Zenon, <1>2, BeginKeeps
<1>3. CASE (\E i \in Instances : Exit(i)) \/ (\E r \in Requests : ReapOrphan(r)) \/ Tick
    BY Zenon, <1>3, SystemKeeps
<1>4. CASE \E i \in Strangers, p \in Pids : StrangerBorn(i, p)
    BY Zenon, <1>4, StrangerKeeps
<1>5. CASE Crash
    BY Zenon, <1>5, CrashKeeps
<1>6. CASE UNCHANGED vars
    <2>1. UNCHANGED <<proc, orphan, live, record, handle, asked, call, jailed, tick, crashes>>
        BY Zenon, <1>6 DEF vars
    <2>2. Types' /\ World'
        BY Zenon, <2>1 DEF AdapterInv, Types, World, Traced, Unborn, Present
    <2>3. \A r \in Requests : /\ Moves(r) /\ (Unborn(r) => Unborn(r)')
                              /\ r \notin orphan => (Present(r) => Present(r)')
        BY <2>1, Zenon DEF Moves, Unborn, Alive, Present
    <2>4. UNCHANGED <<call, live, orphan, record, handle, asked, jailed>>
        BY Zenon, <2>1
    <2> QED
        BY <2>2, <2>3, <2>4, SystemStep, Zenon
<1> QED
    BY Zenon, <1>1, <1>2, <1>3, <1>4, <1>5, <1>6 DEF Next

\* The inductive invariant of the adapters.
THEOREM AdapterInvariant == Spec => []AdapterInv
<1>1. AdapterInv /\ [Next]_vars => AdapterInv'
    BY Zenon, AdapterStep
<1> QED
    BY <1>1, AdapterInit, PTL DEF Spec

----------------------------------------------------------------------------
(* What it gives *)

\* The SIGKILL of terminate_execution reaches the process of its request or nobody, for
\* any reuse of process numbers and any coincidence of birth ticks.
THEOREM KillsHit == Spec => []KillsHitTheirTarget
<1>1. AdapterInv => KillsHitTheirTarget
    <2> SUFFICES ASSUME AdapterInv, NEW c \in Callers, call[c].op = "terminate",
                        At(c, "pinned")
                 PROVE  call[c].fd = call[c].req
        BY Zenon DEF KillsHitTheirTarget
    <2>1. call[c].at = "pinned"
        BY Zenon DEF At
    <2> QED
        BY Zenon, <2>1, ControlFacts DEF ControlRow
<1> QED
    BY <1>1, AdapterInvariant, PTL

\* What a step of a call does to it and to what is durable.
Goes(c) ==
    /\ \A d \in Callers : d # c => call'[d] = call[d]
    /\ call[c].op = "start" => call'[c].op = "start" /\ call'[c].req = call[c].req
    /\ call'[c].ans = "running" /\ call[c].ans # "running" /\ call[c].op # "start" =>
          Alive(call[c].req)

\* A running process that nothing durable leads to was there before, or a start has it.
Lasts ==
    \A r \in Requests :
        /\ record[r] # NoHandle => record'[r] # NoHandle
        /\ handle[r] # NoHandle => handle'[r] # NoHandle
        /\ Alive(r)' => \/ Alive(r)
                        \/ \E c \in Callers : call'[c].op = "start" /\ call'[c].req = r

LEMMA AnswerGoes ==
    ASSUME AdapterInv, NEW c \in Callers, NEW ans \in {"none", "running", "ended", "unknown", "err"},
           NEW hint \in Handles, Answer(c, ans, hint),
           ans = "running" /\ call[c].op # "start" => Alive(call[c].req)
    PROVE  Goes(c)
<1>1. Types
    BY Zenon DEF AdapterInv
<1> QED
    BY Zenon, <1>1, AnswerFacts DEF Goes

LEMMA GotoGoes ==
    ASSUME AdapterInv, NEW c \in Callers, NEW at \in Places, Goto(c, at)
    PROVE  Goes(c)
<1>1. Types
    BY Zenon DEF AdapterInv
<1> QED
    BY Zenon, <1>1, GotoFacts DEF Goes

\* Every step of a call but its return.
LEMMA CallGoes ==
    ASSUME AdapterInv, NEW c \in Callers, Step(c), ~Return(c)
    PROVE  Goes(c)
<1>1. Types /\ call[c] \in Calls
    BY Zenon DEF AdapterInv, Types
<1>2. /\ call[c].birth \in Births \cup {NoBirth} /\ call[c].source \in Handles
    BY Zenon, <1>1 DEF Calls
<1>3. /\ NoHandle \in Handles /\ Locator(NoBirth) \in Handles
      /\ Pin(call[c].birth) \in Handles
    BY Zenon, <1>2, HandleFacts
<1>4. ASSUME NEW ans \in {"ended", "unknown", "err"}, NEW hint \in Handles, Answer(c, ans, hint)
      PROVE  Goes(c)
    BY Zenon, <1>4, AnswerGoes
<1>5. ASSUME NEW ans \in {"running", "ended", "unknown", "err"}, Presence(c, ans),
             ans = "running" => Alive(call[c].req)
      PROVE  Goes(c)
    <2> DEFINE hint == IF call[c].op # "reconcile" THEN NoHandle
                       ELSE IF ans = "unknown" THEN call[c].source
                       ELSE Pin(call[c].birth)
    <2>1. hint \in Handles
        BY Zenon, <1>2, <1>3
    <2>2. Answer(c, ans, hint)
        BY Zenon, <1>5 DEF Presence
    <2> HIDE DEF hint
    <2> QED
        BY Zenon, <1>5, <2>1, <2>2, AnswerGoes
<1>6. CASE prepare_jail(c) \/ spawn_child(c) \/ write_locator_record(c)
    BY Zenon, <1>3, <1>4, <1>6, GotoGoes DEF prepare_jail, spawn_child, write_locator_record, Places
<1>7. CASE process_birth_from_child(c)
    <2>1. CASE Answer(c, "err", Locator(NoBirth))
        BY Zenon, <1>3, <1>4, <2>1
    <2>2. CASE ~Answer(c, "err", Locator(NoBirth))
        BY <1>1, <1>7, <2>2 DEF process_birth_from_child, Goes, Types, Calls
    <2> QED
        BY Zenon, <2>1, <2>2
<1>8. CASE spawn_jailed(c)
    <2>1. CASE Answer(c, "err", Locator(NoBirth)) \/ Answer(c, "err", Pin(call[c].birth))
        BY Zenon, <1>3, <1>4, <2>1
    <2>2. CASE call' = [call EXCEPT ![c].running = Alive(call[c].req), ![c].at = "relocate"]
        BY Zenon, <1>1, <2>2 DEF Goes, Types, Calls
    <2> QED
        BY Zenon, <1>8, <2>1, <2>2 DEF spawn_jailed
<1>9. CASE rewrite_locator_record(c)
    BY Zenon, <1>3, <1>4, <1>9, GotoGoes DEF rewrite_locator_record, Places
<1>10. CASE JailedStart(c) \/ start_execution(c)
    <2>1. call[c].op = "start"
        BY Zenon, <1>10, StartFacts DEF JailedStart, start_execution, At
    <2>2. \E ans \in {"running", "ended", "err"} : Answer(c, ans, Pin(call[c].birth))
        BY Zenon, <1>10 DEF JailedStart, start_execution
    <2> QED
        BY Zenon, <1>3, <2>1, <2>2, AnswerGoes
<1>11. CASE control_parsed(c)
    <2>1. Source(c) \in Handles
        <3>1. call[c].req \in Requests
            BY Zenon, <1>11, CallFacts DEF control_parsed, At
        <3> QED
            BY Zenon, <1>1, <3>1 DEF Source, Types
    <2>2. CASE \E ans \in {"ended", "unknown", "err"}, hint \in Handles : Answer(c, ans, hint)
        BY Zenon, <1>4, <2>2
    <2>3. CASE \E b, s : call' = [call EXCEPT ![c].at = "lookup", ![c].birth = b, ![c].source = s]
        BY <1>1, <2>3 DEF Goes, Types, Calls
    <2> QED
        BY Zenon, <1>3, <1>11, <2>1, <2>2, <2>3 DEF control_parsed
<1>12. CASE AskChild(c)
    BY Zenon, <1>5, <1>12, GotoGoes DEF AskChild, Places
<1>13. CASE \E next \in {"open", "wait"} : TakeChild(c, next)
    <2>1. CASE Goto(c, "open")
        BY Zenon, <2>1, GotoGoes DEF Places
    <2>2. CASE \E next \in {"open", "wait"} :
                  call' = [call EXCEPT ![c].child = TRUE, ![c].token = FALSE, ![c].at = next]
        BY <1>1, <2>2 DEF Goes, Types, Calls
    <2> QED
        BY Zenon, <1>13, <2>1, <2>2 DEF TakeChild
<1>14. CASE interrupt_execution(c)
    BY Zenon, <1>1, <1>14 DEF interrupt_execution, Goes, Types, Calls
<1>15. CASE JailedInterrupt(c)
    BY Zenon, <1>15, GotoGoes DEF JailedInterrupt, Places
<1>16. ASSUME NEW outcome, Unpinned(c, outcome), call[c].op # "start"
       PROVE  Goes(c)
    <2>1. CASE call[c].op = "interrupt"
        <3>1. call' = [call EXCEPT ![c].op = "observe", ![c].at = "parse", ![c].birth = NoBirth,
                         ![c].fd = Nobody, ![c].token = TRUE, ![c].source = NoHandle]
            BY Zenon, <1>16, <2>1 DEF Unpinned
        <3> QED
            BY <1>1, <1>16, <3>1 DEF Goes, Types, Calls
    <2>2. CASE call[c].op # "interrupt"
        BY Zenon, <1>5, <1>16, <2>2 DEF Unpinned
    <2> QED
        BY Zenon, <2>1, <2>2
<1>17. CASE pidfd_open(c)
    <2>1. call[c].op # "start"
        BY Zenon, <1>17, ControlFacts DEF pidfd_open, At
    <2>2. CASE \E o : call' = [call EXCEPT ![c].fd = o, ![c].at = "stat"]
        BY SMTT(30), <1>1, <2>2 DEF Goes, Types, Calls
    <2> QED
        BY Zenon, <1>16, <1>17, <2>1, <2>2 DEF pidfd_open
<1>18. CASE process_stat(c) \/ instance_token_matches(c)
    <2>1. call[c].op # "start"
        BY Zenon, <1>18, ControlFacts DEF process_stat, instance_token_matches, At
    <2>2. \/ \E outcome : Unpinned(c, outcome)
          \/ \E at \in Places : Goto(c, at)
          \/ Answer(c, "err", NoHandle)
        BY Zenon, <1>18 DEF process_stat, instance_token_matches, Places
    <2> QED
        BY <1>3, <1>4, <1>16, <2>1, <2>2, GotoGoes
<1>19. CASE is_alive(c)
    <2>1. call[c].fd = call[c].req
        BY Zenon, <1>19, ControlFacts DEF is_alive, At, ControlRow
    <2> QED
        BY Zenon, <1>5, <1>19, <2>1 DEF is_alive
<1>20. CASE interrupt(c)
    <2>1. call'[c].ans = "none"
        BY Zenon, <1>1, <1>20 DEF interrupt, Types, Idle
    <2>2. call[c].op = "interrupt" /\ \A d \in Callers : d # c => call'[d] = call[d]
        BY Zenon, <1>1, <1>20 DEF interrupt, Types
    <2> QED
        BY Zenon, <2>1, <2>2 DEF Goes
<1>21. CASE kill(c)
    BY Zenon, <1>21, GotoGoes DEF kill, Places
<1>22. CASE wait_exit(c) \/ Fail(c)
    BY Zenon, <1>3, <1>4, <1>22 DEF wait_exit, Fail
<1>23. CASE admit_start(c) \/ admit_with_handle(c)
    BY <1>1, <1>23 DEF admit_start, admit_with_handle, Goes, Types, Calls
<1> QED
    BY Zenon, <1>6, <1>7, <1>8, <1>9, <1>10, <1>11, <1>12, <1>13, <1>14, <1>15, <1>17, <1>18, <1>19,
       <1>20, <1>21, <1>22, <1>23
    DEF Step, observe_execution, reconcile_start, JailedObserve, JailedReconcile,
        terminate_execution, collect_outcome, JailedTerminate, JailedCollect

\* The adapters tell the truth: an end is reported only of a process that has ended, and
\* observe_execution and reconcile_start say Running only of one that runs.
THEOREM AnswersTrue == Spec => AnswersAreTrue
<1> DEFINE Ends == \A c \in Callers :
                       call[c].ans = "ended" => proc[call[c].req].state \in {"zombie", "gone"}
           Runs == \A c \in Callers :
                       call'[c].ans = "running" /\ call[c].ans # "running" /\ call[c].op # "start"
                       => Alive(call[c].req)
<1>1. AdapterInv => Ends
    BY Zenon DEF AdapterInv, Row
<1>2. AdapterInv /\ [Next]_vars => [Runs]_vars
    <2> SUFFICES ASSUME AdapterInv, Next PROVE Runs
        BY Zenon
    <2>1. ASSUME NEW c \in Callers, Step(c) PROVE Runs
        <3>1. CASE Return(c)
            <4>1. call'[c] = Idle /\ \A d \in Callers : d # c => call'[d] = call[d]
                BY Zenon, <3>1 DEF Return, AdapterInv, Types
            <4>2. Idle.ans = "none"
                BY Zenon DEF Idle
            <4> QED
                BY Zenon, <4>1, <4>2
        <3>2. CASE ~Return(c)
            BY Zenon, <2>1, <3>2, CallGoes DEF Goes
        <3> QED
            BY Zenon, <3>1, <3>2
    <2>2. ASSUME NEW c \in Callers, NEW op \in Operations, NEW r \in Requests, Begin(c, op, r)
          PROVE  Runs
        <3>1. call'[c].ans = "none" /\ \A d \in Callers : d # c => call'[d] = call[d]
            BY Zenon, <2>2 DEF Begin, AdapterInv, Types, Idle
        <3> QED
            BY Zenon, <3>1
    <2>3. CASE \/ \E i \in Instances : Exit(i)
               \/ \E i \in Strangers, p \in Pids : StrangerBorn(i, p)
               \/ \E r \in Requests : ReapOrphan(r)
               \/ Tick
        <3>1. call' = call
            BY Zenon, <2>3 DEF Exit, StrangerBorn, ReapOrphan, Tick
        <3> QED
            BY Zenon, <3>1
    <2>4. CASE Crash
        <3>1. \A c \in Callers : call'[c].ans = "none"
            BY Zenon, <2>4 DEF Crash, Idle
        <3> QED
            BY Zenon, <3>1
    <2> HIDE DEF Runs
    <2> QED
        BY Zenon, <2>1, <2>2, <2>3, <2>4 DEF Next
<1>3. AnswersAreTrue <=> []Ends /\ [][Runs]_vars
    BY Zenon DEF AnswersAreTrue
<1> HIDE DEF Ends, Runs
<1> QED
    BY <1>1, <1>2, <1>3, AdapterInvariant, PTL DEF Spec

\* Reaping wakes nobody.
LEMMA ReapedSleeps ==
    ASSUME AdapterInv, NEW r \in Requests, proc' = proc \/ proc' = Reaped(r),
           NEW q \in Requests, Alive(q)'
    PROVE  Alive(q)
BY DEF AdapterInv, Types, Processes, Instances, Reaped, Alive

\* Every step of a call keeps what leads to a process.
LEMMA CallLasts ==
    ASSUME AdapterInv, NEW c \in Callers, Step(c)
    PROVE  Lasts
<1>1. Types
    BY Zenon DEF AdapterInv
<1>2. ASSUME NEW r \in Requests, record' = record, handle' = handle,
             proc' = proc \/ proc' = Reaped(r)
      PROVE  Lasts
    BY Zenon, <1>2, ReapedSleeps DEF Lasts
<1>3. ASSUME NEW r \in Requests, handle' = handle, NEW b \in Births \cup {NoBirth},
             record' = [record EXCEPT ![r] = Locator(b)], proc' = proc \/ proc' = Reaped(r)
      PROVE  Lasts
    <2>1. \A q \in Requests : record[q] # NoHandle => record'[q] # NoHandle
        BY Zenon, <1>1, <1>3, HandleFacts DEF Types
    <2> QED
        BY Zenon, <1>3, <2>1, ReapedSleeps DEF Lasts
<1>4. call[c].at # "idle"
    BY Zenon DEF Step, prepare_jail, spawn_child, write_locator_record, process_birth_from_child,
           spawn_jailed, rewrite_locator_record, JailedStart, start_execution, control_parsed,
           observe_execution, reconcile_start, interrupt_execution, terminate_execution,
           collect_outcome, JailedObserve, JailedReconcile, JailedInterrupt, JailedTerminate,
           JailedCollect, pidfd_open, process_stat, instance_token_matches, is_alive, interrupt,
           kill, wait_exit, Fail, admit_start, admit_with_handle, Return, At
<1>5. PICK r \in Requests : r = call[c].req
    BY Zenon, <1>4, CallFacts
<1>6. CASE \/ prepare_jail(c) \/ process_birth_from_child(c) \/ spawn_jailed(c)
           \/ start_execution(c)
    BY Zenon, <1>2, <1>5, <1>6 DEF prepare_jail, process_birth_from_child, spawn_jailed,
       start_execution, Discard, kill_child, detach_reaper
<1>7. CASE spawn_child(c)
    <2>1. CASE UNCHANGED proc
        BY Zenon, <1>2, <1>5, <1>7, <2>1 DEF spawn_child
    <2>2. CASE Goto(c, "locate") /\ \E p : proc' = [proc EXCEPT ![r] = p]
        <3>1. call'[c].op = "start" /\ call'[c].req = r
            <4>1. call[c].op = "start"
                BY Zenon, <1>7, StartFacts DEF spawn_child, At
            <4> QED
                BY <1>1, <1>5, <2>2, <4>1, GotoFacts, PlacesFacts, Zenon
        <3>2. \A q \in Requests : q # r => proc'[q] = proc[q]
            BY Zenon, <1>1, <2>2 DEF Types, Instances
        <3>3. record' = record /\ handle' = handle
            BY Zenon, <1>7 DEF spawn_child
        <3> QED
            BY Zenon, <3>1, <3>2, <3>3 DEF Lasts, Alive
    <2> QED
        BY Zenon, <1>5, <1>7, <2>1, <2>2 DEF spawn_child
<1>8. CASE write_locator_record(c)
    BY Zenon, <1>2, <1>3, <1>5, <1>8 DEF write_locator_record, LetGo, kill_child, detach_reaper
<1>9. CASE rewrite_locator_record(c) \/ JailedStart(c)
    <2>1. call[c].birth \in Births \cup {NoBirth}
        BY Zenon, <1>9, StartFacts DEF rewrite_locator_record, JailedStart, At
    <2> QED
        BY Zenon, <1>2, <1>3, <1>5, <1>9, <2>1 DEF rewrite_locator_record, JailedStart, detach_reaper
<1>10. CASE \/ control_parsed(c) \/ interrupt_execution(c) \/ JailedInterrupt(c) \/ is_alive(c)
            \/ interrupt(c) \/ kill(c) \/ admit_start(c) \/ admit_with_handle(c)
    BY Zenon, <1>2, <1>5, <1>10 DEF control_parsed, interrupt_execution, JailedInterrupt, is_alive,
       interrupt, kill, admit_start, admit_with_handle
<1>11. CASE AskChild(c) \/ (\E next : TakeChild(c, next)) \/ wait_exit(c) \/ Fail(c)
    BY Zenon, <1>2, <1>5, <1>11 DEF AskChild, TakeChild, wait_exit, Fail
<1>12. CASE pidfd_open(c) \/ process_stat(c) \/ instance_token_matches(c)
    BY Zenon, <1>2, <1>5, <1>12 DEF pidfd_open, process_stat, instance_token_matches, Unpinned
<1>13. CASE Return(c)
    <2>1. proc' = proc /\ record' = record
        BY Zenon, <1>13 DEF Return
    <2>2. handle' = [handle EXCEPT ![r] = IF call[c].hint = NoHandle THEN @ ELSE call[c].hint]
        BY Zenon, <1>5, <1>13 DEF Return
    <2>3. \A q \in Requests : handle[q] # NoHandle => handle'[q] # NoHandle
        BY Zenon, <1>1, <2>2 DEF Types
    <2> QED
        BY Zenon, <2>1, <2>3 DEF Lasts, Alive
<1> QED
    BY Zenon, <1>6, <1>7, <1>8, <1>9, <1>10, <1>11, <1>12, <1>13
    DEF Step, observe_execution, reconcile_start, JailedObserve, JailedReconcile,
        terminate_execution, collect_outcome, JailedTerminate, JailedCollect

\* No error path of start_execution loses the process it started: only the daemon's death
\* before the first locator record does.
THEOREM OnlyCrashLoses == Spec => OnlyACrashLosesAProcess
<1> DEFINE Starts(r) == \E c \in Callers : call[c].op = "start" /\ call[c].req = r
           Safe == \A r \in Requests : Lost(r)' /\ ~Lost(r) =>
                      /\ crashes' # crashes
                      /\ \E c \in Callers : /\ call[c].op = "start" /\ call[c].req = r
                                            /\ call[c].at \in {"locate", "return"}
<1>1. ASSUME AdapterInv, Next PROVE Safe
    <2> SUFFICES ASSUME NEW r \in Requests, Lost(r)', ~Lost(r)
                 PROVE  /\ crashes' # crashes
                        /\ \E c \in Callers : /\ call[c].op = "start" /\ call[c].req = r
                                              /\ call[c].at \in {"locate", "return"}
        BY Zenon
    <2>1. Lasts
        <3>1. CASE \E c \in Callers : Step(c)
            BY Zenon, <1>1, <3>1, CallLasts
        <3>2. CASE \E c \in Callers, op \in Operations, q \in Requests : Begin(c, op, q)
            BY Zenon, <3>2 DEF Begin, Lasts, Alive
        <3>3. CASE \E i \in Instances : Exit(i)
            BY Zenon, <1>1, <3>3 DEF Exit, Lasts, Alive, AdapterInv, Types, Processes, Instances
        <3>4. CASE \E i \in Strangers, p \in Pids : StrangerBorn(i, p)
            BY <1>1, <3>4, ProcessAssumption
            DEF StrangerBorn, Lasts, Alive, AdapterInv, Types, Instances
        <3>5. CASE \E q \in Requests : ReapOrphan(q)
            BY Zenon, <1>1, <3>5, ReapedSleeps DEF ReapOrphan, Lasts
        <3>6. CASE Tick \/ Crash
            BY Zenon, <3>6 DEF Tick, Crash, Lasts, Alive
        <3> QED
            BY Zenon, <1>1, <3>1, <3>2, <3>3, <3>4, <3>5, <3>6 DEF Next
    <2>2. /\ ~Starts(r)' /\ Alive(r)' /\ handle'[r] = NoHandle /\ record'[r] = NoHandle
        BY Zenon DEF Lost
    <2>3. Alive(r) /\ handle[r] = NoHandle /\ record[r] = NoHandle
        BY Zenon, <2>1, <2>2 DEF Lasts
    <2>4. PICK c \in Callers : call[c].op = "start" /\ call[c].req = r
        BY Zenon, <2>3 DEF Lost
    <2>5. call[c] \in Calls /\ StartRow(call[c]) /\ Types
        BY Zenon, <1>1, <2>4 DEF AdapterInv, Types, Row
    <2>6. CASE \E d \in Callers : Step(d)
        <3>1. PICK d \in Callers : Step(d)
            BY Zenon, <2>6
        <3>2. CASE ~Return(d)
            BY Zenon, <1>1, <2>2, <2>4, <3>1, <3>2, CallGoes DEF Goes
        <3>3. CASE Return(d)
            <4>1. d = c
                BY Zenon, <2>2, <2>4, <2>5, <3>3 DEF Return, Types
            <4>2. call[c].at = "return" /\ call[c].hint = NoHandle
                BY Zenon, <2>2, <2>4, <2>5, <3>3, <4>1 DEF Return, At, Types
            <4> QED
                BY Zenon, <2>3, <2>4, <2>5, <4>2 DEF StartRow, Unborn, Alive
        <3> QED
            BY Zenon, <3>2, <3>3
    <2>7. CASE \E d \in Callers, op \in Operations, q \in Requests : Begin(d, op, q)
        <3>1. PICK d \in Callers, op \in Operations, q \in Requests : Begin(d, op, q)
            BY Zenon, <2>7
        <3>2. d # c
            BY Zenon, <2>4, <2>5, <3>1 DEF Begin, At, StartRow
        <3>3. call'[c] = call[c]
            BY Zenon, <2>5, <3>1, <3>2 DEF Begin, Types
        <3> QED
            BY Zenon, <2>2, <2>4, <3>3
    <2>8. CASE \/ \E i \in Instances : Exit(i)
               \/ \E i \in Strangers, p \in Pids : StrangerBorn(i, p)
               \/ \E q \in Requests : ReapOrphan(q)
               \/ Tick
        <3>1. call' = call
            BY Zenon, <2>8 DEF Exit, StrangerBorn, ReapOrphan, Tick
        <3> QED
            BY Zenon, <2>2, <2>4, <3>1
    <2>9. CASE Crash
        <3>1. crashes' # crashes
            BY <2>5, <2>9 DEF Crash, Types
        <3>2. call[c].at \in {"locate", "return"}
            BY Zenon, <2>3, <2>4, <2>5 DEF StartRow, Unborn, Alive
        <3> QED
            BY Zenon, <2>4, <3>1, <3>2
    <2> QED
        BY Zenon, <1>1, <2>6, <2>7, <2>8, <2>9 DEF Next
<1>2. AdapterInv /\ [Next]_vars => [Safe]_vars
    BY Zenon, <1>1
<1>3. OnlyACrashLosesAProcess <=> [][Safe]_vars
    BY Zenon DEF OnlyACrashLosesAProcess
<1> HIDE DEF Safe
<1> QED
    BY <1>2, <1>3, AdapterInvariant, PTL DEF Spec

=============================================================================
