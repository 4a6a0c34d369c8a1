---------------------------- MODULE Justice_proofs ----------------------------
(***************************************************************************)
(* For any members, officers and numbers of orders and faults: roles,      *)
(* records and jobs agree about every member with whom nothing went wrong, *)
(* and nobody whom justice has charged is released.                        *)
(***************************************************************************)
EXTENDS Justice, TLAPS, FiniteSetTheorems, SequenceTheorems, WellFoundedInduction

-----------------------------------------------------------------------------
(* Rows *)

LEMMA Least ==
    ASSUME NEW T, T \subseteq Nat, T # {}
    PROVE  \E x \in T : \A y \in T : x <= y
<1>1. PICK x \in T : \A y \in T : ~ (<<y, x>> \in OpToRel(<, Nat))
  BY NatLessThanWellFounded, WFMin
<1>2. \A y \in T : ~(y < x)
  BY <1>1 DEF OpToRel
<1> QED  BY <1>2

LEMMA Greatest ==
    ASSUME NEW n \in Nat, NEW T, T \subseteq 1 .. n, T # {}
    PROVE  \E x \in T : \A y \in T : y <= x
<1> DEFINE U == {n - i : i \in T}
<1>1. U \subseteq Nat /\ U # {}
  <2>1. \A i \in T : n - i \in Nat
    OBVIOUS
  <2>2. U \subseteq Nat
    BY <2>1
  <2>3. PICK i \in T : TRUE
    OBVIOUS
  <2>4. n - i \in U
    OBVIOUS
  <2> QED  BY <2>2, <2>4
<1>2. PICK u \in U : \A v \in U : u <= v
  <2> HIDE DEF U
  <2> QED  BY <1>1, Least
<1>3. PICK x \in T : u = n - x
  OBVIOUS
<1>4. ASSUME NEW y \in T PROVE y <= x
  <2>1. n - x <= n - y
    BY <1>2, <1>3
  <2> QED  BY <2>1
<1> QED  BY <1>4

\* The look-up finds the latest row that is open, and nothing if there is none.
LEMMA Latest ==
    ASSUME rows \in [Members -> Seq(Status)], NEW m \in Members
    PROVE  /\ ActiveRow(m) \in Nat
           /\ ActiveRow(m) = 0 <=> ActiveRows(m) = {}
           /\ ActiveRow(m) # 0 =>
                 ActiveRow(m) \in ActiveRows(m) /\ \A j \in ActiveRows(m) : j <= ActiveRow(m)
<1>1. PICK n \in Nat : DOMAIN rows[m] = 1 .. n
  OBVIOUS
<1>2. ActiveRows(m) \subseteq 1 .. n
  BY <1>1 DEF ActiveRows
<1>3. CASE ActiveRows(m) = {}
  BY <1>3 DEF ActiveRow
<1>4. CASE ActiveRows(m) # {}
  <2>1. \E x \in ActiveRows(m) : \A y \in ActiveRows(m) : y <= x
    BY <1>2, <1>4, Greatest
  <2>2. /\ ActiveRow(m) \in ActiveRows(m)
        /\ \A j \in ActiveRows(m) : j <= ActiveRow(m)
    BY <1>4, <2>1 DEF ActiveRow
  <2> QED  BY <1>2, <1>4, <2>2
<1> QED  BY <1>3, <1>4

-----------------------------------------------------------------------------
(* Types *)

Steps == {"idle", "seize", "strip", "find", "book", "check", "remove", "add", "look", "mark"}
Seen == [bare: BOOLEAN, done: BOOLEAN, row: Nat]

ServerTyped ==
    /\ suspect \subseteq Members /\ citizen \subseteq Members
    /\ rows \in [Members -> Seq(Status)]
    /\ settings \subseteq Roles /\ drafts \subseteq [role: Roles, kept: SUBSET Roles]
    /\ uuidKeys \in BOOLEAN
TimerTyped ==
    /\ jobs \in [Members -> {"none", "waiting", "due"}] /\ detached \in BOOLEAN
    /\ ready \subseteq Members
ControlTyped ==
    /\ at \in [Procs -> Steps]
    /\ todo \in [Procs -> Seq(Members)]
    /\ seen \in [Procs -> Seen]
    /\ \A p \in Procs : Idle(p) <=> todo[p] = <<>>

Typed ==
    /\ ServerTyped /\ TimerTyped /\ ControlTyped
    /\ clean \subseteq Members /\ roleless \subseteq Members

LEMMA Types == Typed => TypeOK
BY DEF Typed, ServerTyped, TimerTyped, ControlTyped, TypeOK, Steps, Seen

\* Whoever is not idle works on a member.
LEMMA Working ==
    ASSUME ControlTyped, NEW p \in Procs, ~Idle(p)
    PROVE  /\ Member(p) \in Members /\ todo[p] # <<>> /\ Tail(todo[p]) \in Seq(Members)
           /\ Tail(todo[p]) # <<>> => Head(Tail(todo[p])) \in Members
<1>1. todo[p] \in Seq(Members) /\ todo[p] # <<>>
  BY DEF ControlTyped
<1>2. Tail(todo[p]) \in Seq(Members) /\ Head(todo[p]) \in Members
  BY <1>1
<1>3. Tail(todo[p]) # <<>> => Head(Tail(todo[p])) \in Members
  BY <1>2
<1> QED  BY <1>1, <1>2, <1>3 DEF Member

\* p goes on with the same member.
Goes(p, step) == Goto(p, step) /\ UNCHANGED todo

LEMMA GoesTyped ==
    ASSUME ControlTyped, NEW p \in Procs, ~Idle(p), NEW step \in Steps \ {"idle"},
           Goes(p, step), seen' \in [Procs -> Seen]
    PROVE  ControlTyped'
<1>1. at' \in [Procs -> Steps] /\ at'[p] = step /\ \A q \in Procs \ {p} : at'[q] = at[q]
  BY DEF ControlTyped, Goes, Goto
<1>2. todo' = todo
  BY DEF Goes
<1>3. \A q \in Procs : Idle(q)' <=> todo'[q] = <<>>
  BY <1>1, <1>2 DEF ControlTyped, Idle
<1> QED  BY <1>1, <1>2, <1>3 DEF ControlTyped

\* p works on nobody any more, or on the next one.
Leaves(p) ==
    /\ Goto(p, IF todo'[p] = <<>> THEN "idle" ELSE "check")
    /\ \/ todo' = [todo EXCEPT ![p] = Tail(@)]
       \/ todo' = [todo EXCEPT ![p] = <<>>]

LEMMA LeavesTyped ==
    ASSUME ControlTyped, NEW p \in Procs, ~Idle(p), Leaves(p), seen' \in [Procs -> Seen]
    PROVE  ControlTyped'
<1>1. Tail(todo[p]) \in Seq(Members) /\ <<>> \in Seq(Members)
  BY Working
<1>2. /\ todo' \in [Procs -> Seq(Members)]
      /\ \A q \in Procs \ {p} : todo'[q] = todo[q]
  BY <1>1 DEF ControlTyped, Leaves
<1>3. /\ at' \in [Procs -> Steps]
      /\ at'[p] = IF todo'[p] = <<>> THEN "idle" ELSE "check"
      /\ \A q \in Procs \ {p} : at'[q] = at[q]
  BY DEF ControlTyped, Leaves, Goto, Steps
<1>4. \A q \in Procs : Idle(q)' <=> todo'[q] = <<>>
  BY <1>2, <1>3 DEF ControlTyped, Idle
<1> QED  BY <1>2, <1>3, <1>4 DEF ControlTyped

LEMMA EndsArrest ==
    ASSUME ControlTyped, NEW p \in Procs, EndArrest(p)
    PROVE  Leaves(p) /\ seen' = seen /\ todo'[p] = <<>> /\ UNCHANGED timer
BY DEF EndArrest, Leaves, ControlTyped

LEMMA NothingSeenTyped == NothingSeen \in Seen
BY DEF NothingSeen, Seen

LEMMA NextTyped ==
    ASSUME Typed, NEW p \in Procs, ~Idle(p), NextMember(p, TRUE)
    PROVE  /\ Leaves(p) /\ todo' = [todo EXCEPT ![p] = Tail(@)]
           /\ seen' \in [Procs -> Seen] /\ TimerTyped'
           /\ jobs'[Member(p)] = "none"
           /\ \A m \in Members : jobs'[m] # "none" => jobs'[m] = jobs[m]
<1>0. Member(p) \in Members
  BY Working DEF Typed
<1>1. todo' = [todo EXCEPT ![p] = Tail(@)] /\ todo'[p] = Tail(todo[p])
  BY DEF NextMember, Typed, ControlTyped
<1>2. Goto(p, IF todo'[p] = <<>> THEN "idle" ELSE "check")
  BY <1>1 DEF NextMember
<1>3. seen' \in [Procs -> Seen]
  <2>1. seen[p] \in Seen
    BY DEF Typed, ControlTyped
  <2>2. [NothingSeen EXCEPT !.bare = seen[p].bare] \in Seen
    BY <2>1 DEF NothingSeen, Seen
  <2> QED  BY <2>2, NothingSeenTyped DEF NextMember, Typed, ControlTyped
<1>4. PICK left : /\ left = CancelLeaves(Member(p))
                  /\ \/ jobs' = [n \in Members |-> IF n \in ready THEN "none" ELSE left[n]]
                     \/ jobs' = left
                  /\ ready' = {} \/ ready' = ready
                  /\ detached' \in BOOLEAN
  BY DEF NextMember
<1>5. /\ left \in [Members -> {"none", "waiting", "due"}] /\ left[Member(p)] = "none"
      /\ \A m \in Members : m # Member(p) => left[m] = jobs[m]
  BY <1>0, <1>4 DEF CancelLeaves, Typed, TimerTyped
<1>6. /\ jobs' \in [Members -> {"none", "waiting", "due"}]
      /\ jobs'[Member(p)] = "none"
      /\ \A m \in Members : jobs'[m] # "none" => jobs'[m] = jobs[m]
  BY <1>0, <1>4, <1>5
<1>7. TimerTyped'
  BY <1>4, <1>6 DEF Typed, TimerTyped
<1> QED  BY <1>1, <1>2, <1>3, <1>6, <1>7 DEF Leaves

LEMMA BeginSeen ==
    ASSUME ControlTyped, NEW p \in Procs, NEW ms, NEW step, Begin(p, ms, step)
    PROVE  seen' \in [Procs -> Seen] /\ \A q \in Procs \ {p} : seen'[q] = seen[q]
<1> PICK b \in BOOLEAN : b = ("citizen" \notin settings)
  <2>1. ("citizen" \notin settings) \in BOOLEAN
    OBVIOUS
  <2> QED  BY <2>1
<1>1. seen' = [seen EXCEPT ![p].bare = b]
  BY DEF Begin
<1>2. seen[p] \in Seen
  BY DEF ControlTyped
<1>3. [seen[p] EXCEPT !.bare = b] \in Seen
  BY <1>2 DEF Seen
<1> QED  BY <1>1, <1>3 DEF ControlTyped

LEMMA BeginTyped ==
    ASSUME Typed, NEW p \in Procs, Idle(p), NEW ms \in Seq(Members), ms # <<>>,
           NEW step \in Steps \ {"idle"}, Begin(p, ms, step)
    PROVE  ControlTyped' /\ clean' \subseteq Members
<1>1. /\ at' \in [Procs -> Steps] /\ at'[p] = step
      /\ \A q \in Procs \ {p} : at'[q] = at[q]
  BY DEF Begin, Goto, Typed, ControlTyped
<1>2. /\ todo' \in [Procs -> Seq(Members)] /\ todo'[p] = ms
      /\ \A q \in Procs \ {p} : todo'[q] = todo[q]
  BY DEF Begin, Typed, ControlTyped
<1>3. \A q \in Procs : Idle(q)' <=> todo'[q] = <<>>
  BY <1>1, <1>2 DEF Typed, ControlTyped, Idle
<1> QED  BY <1>1, <1>2, <1>3, BeginSeen DEF Begin, Typed, ControlTyped

\* The batch of the scheduler is all that is due, in some order.
LEMMA Batch ==
    ASSUME NEW due, due \subseteq Members, due # {}, NEW ms \in SetToSeqs(due)
    PROVE  ms \in Seq(due) /\ ms \in Seq(Members) /\ ms # <<>>
<1>1. IsFiniteSet(due)
  BY FS_Subset, JusticeAssumption
<1>2. Cardinality(due) \in Nat /\ Cardinality(due) # 0
  BY <1>1, FS_CardinalityType, FS_EmptySet
<1>3. ms \in [1 .. Cardinality(due) -> due]
  BY DEF SetToSeqs
<1> QED  BY <1>2, <1>3

LEMMA GoOnTyped ==
    ASSUME ControlTyped, NEW p \in Procs, ~Idle(p), GoOn(p), UNCHANGED todo
    PROVE  /\ \E step \in {"remove", "add", "look"} : Goes(p, step)
           /\ seen' \in [Procs -> Seen] /\ ControlTyped'
           /\ \A q \in Procs \ {p} : seen'[q] = seen[q]
           /\ roleless \subseteq roleless' /\ roleless' \subseteq roleless \cup {Member(p)}
<1>1. PICK step \in {"remove", "add", "look"} : Goto(p, step)
  BY DEF GoOn
<1>2. (seen[p].bare \/ Member(p) \in citizen) \in BOOLEAN
  OBVIOUS
<1>3. seen' \in [Procs -> Seen] /\ \A q \in Procs \ {p} : seen'[q] = seen[q]
  <2> PICK b \in BOOLEAN : b = (seen[p].bare \/ Member(p) \in citizen)
    BY <1>2
  <2>1. seen' = [seen EXCEPT ![p].done = b]
    BY DEF GoOn
  <2>2. seen[p] \in Seen
    BY DEF ControlTyped
  <2>3. [seen[p] EXCEPT !.done = b] \in Seen
    BY <2>2 DEF Seen
  <2> QED  BY <2>1, <2>3 DEF ControlTyped
<1>4. roleless \subseteq roleless' /\ roleless' \subseteq roleless \cup {Member(p)}
  BY DEF GoOn
<1> QED  BY <1>1, <1>3, <1>4, GoesTyped DEF Goes, Steps

LEMMA BusyTyped ==
    ASSUME ControlTyped, NEW p \in Procs, NEW m, p \in BusyWith(m)
    PROVE  ~Idle(p) /\ Member(p) = m
BY DEF BusyWith, ControlTyped

LEMMA FunctionIsSeq ==
    ASSUME NEW S, NEW n \in Nat, NEW r \in [1 .. n -> S]
    PROVE  r \in Seq(S)
OBVIOUS

LEMMA StepTyped == ASSUME Typed, NEW p \in Procs, Step(p) PROVE Typed'
<1> USE DEF Typed
<1>0. ~Idle(p) /\ Member(p) \in Members
  <2>1. ~Idle(p)
    BY DEF Step, arrest_user, release_suspects, Seize, Strip, Find, Book, Check, RemoveRole,
           AddRole, Look, Mark, Idle
  <2> QED  BY <2>1, Working
<1>1. ASSUME UNCHANGED <<rows, config, jobs, detached, ready, clean, seen>>,
             suspect' \subseteq Members, citizen' \subseteq Members,
             roleless' \subseteq Members,
             NEW step \in Steps \ {"idle"}, Goes(p, step)
      PROVE  Typed'
  BY <1>0, <1>1, GoesTyped DEF config, ServerTyped, TimerTyped, ControlTyped
<1>2. ASSUME UNCHANGED <<suspect, citizen, config, roleless>>, rows' \in [Members -> Seq(Status)],
             TimerTyped', clean' \subseteq clean, Leaves(p), seen' \in [Procs -> Seen]
      PROVE  Typed'
  BY <1>0, <1>2, LeavesTyped DEF config, ServerTyped
<1>3. CASE Seize(p) \/ Strip(p)
  BY <1>0, <1>1, <1>3
     DEF Seize, Strip, Goes, timer, history, ServerTyped, Steps
<1>4. CASE Find(p) \/ Book(p)
  <2>1. CASE Goto(p, "book") /\ Find(p) /\ UNCHANGED <<timer, todo, seen>>
    BY <1>1, <2>1 DEF Find, Goes, server, timer, history, ServerTyped, Steps
  <2>2. CASE EndArrest(p)
    <3>1. rows' \in [Members -> Seq(Status)]
      <4>1. CASE Find(p)
        BY <4>1 DEF Find, ServerTyped
      <4>2. CASE Book(p)
        <5>1. Append(rows[Member(p)], "detained") \in Seq(Status)
          BY <1>0 DEF ServerTyped, Status
        <5> QED  BY <4>2, <5>1 DEF Book, ServerTyped
      <4> QED  BY <1>4, <4>1, <4>2
    <3>2. Leaves(p) /\ seen' = seen /\ UNCHANGED timer
      BY <2>2, EndsArrest
    <3> QED
      BY <1>2, <1>4, <3>1, <3>2 DEF Find, Book, server, timer, history, TimerTyped, ControlTyped
  <2> QED  BY <1>4, <2>1, <2>2 DEF Find, Book
<1>5. CASE Check(p)
  <2>1. CASE NextMember(p, TRUE) /\ UNCHANGED roleless
    <3>1. Leaves(p) /\ seen' \in [Procs -> Seen] /\ TimerTyped'
      BY <1>0, <2>1, NextTyped
    <3>2. clean' \subseteq clean
      BY <1>5 DEF Check
    <3> QED  BY <1>2, <1>5, <2>1, <3>1, <3>2 DEF Check, server, ServerTyped
  <2>2. CASE GoOn(p) /\ UNCHANGED <<timer, todo, clean>>
    <3>1. ControlTyped' /\ roleless' \subseteq Members
      BY <1>0, <2>2, GoOnTyped
    <3> QED  BY <1>5, <2>2, <3>1 DEF Check, server, timer, config, ServerTyped, TimerTyped
  <2> QED  BY <1>5, <2>1, <2>2 DEF Check
<1>6. CASE RemoveRole(p) \/ AddRole(p)
  BY <1>0, <1>1, <1>6 DEF RemoveRole, AddRole, Goes, timer, history, ServerTyped, Steps
<1>7. CASE Look(p)
  <2>1. CASE NextMember(p, TRUE)
    <3>1. Leaves(p) /\ seen' \in [Procs -> Seen] /\ TimerTyped'
      BY <1>0, <2>1, NextTyped
    <3>2. clean' \subseteq clean
      BY <1>7 DEF Look
    <3> QED  BY <1>2, <1>7, <3>1, <3>2 DEF Look, server, ServerTyped
  <2>2. CASE /\ Goto(p, "mark") /\ UNCHANGED <<timer, todo, clean>>
             /\ seen' = [seen EXCEPT ![p].row = ActiveRow(Member(p))]
    <3>1. seen' \in [Procs -> Seen]
      <4> PICK n \in Nat : n = ActiveRow(Member(p))
        BY <1>0, Latest DEF ServerTyped
      <4>1. seen' = [seen EXCEPT ![p].row = n]
        BY <2>2
      <4>2. seen[p] \in Seen
        BY DEF ControlTyped
      <4>3. [seen[p] EXCEPT !.row = n] \in Seen
        BY <4>2 DEF Seen
      <4> QED  BY <4>1, <4>3 DEF ControlTyped
    <3>2. ControlTyped'
      BY <1>0, <2>2, <3>1, GoesTyped DEF Goes, Steps
    <3> QED  BY <1>7, <2>2, <3>2 DEF Look, server, timer, config, ServerTyped, TimerTyped
  <2> QED  BY <1>7, <2>1, <2>2 DEF Look
<1>8. CASE Mark(p)
  <2>1. Leaves(p) /\ seen' \in [Procs -> Seen] /\ TimerTyped'
    BY <1>0, <1>8, NextTyped DEF Mark
  <2>2. clean' \subseteq clean
    BY <1>8 DEF Mark
  <2>3. rows' \in [Members -> Seq(Status)]
    <3> PICK m \in Members, i \in Nat : m = Member(p) /\ i = seen[p].row
      BY <1>0 DEF ControlTyped, Seen
    <3> PICK r : r = [rows[m] EXCEPT ![i] = "released"]
      OBVIOUS
    <3>1. r \in Seq(Status)
      <4>1. PICK n \in Nat : rows[m] \in [1 .. n -> Status]
        BY DEF ServerTyped
      <4>2. r \in [1 .. n -> Status]
        BY <4>1 DEF Status
      <4> QED  BY <4>2, FunctionIsSeq
    <3>2. rows' = [rows EXCEPT ![m] = r]
      BY <1>8 DEF Mark
    <3> QED  BY <3>1, <3>2 DEF ServerTyped
  <2> QED  BY <1>2, <1>8, <2>1, <2>2, <2>3 DEF Mark, server
<1> QED
  BY <1>3, <1>4, <1>5, <1>6, <1>7, <1>8 DEF Step, arrest_user, release_suspects

LEMMA TypedAtFirst == Init => Typed
<1> SUFFICES ASSUME Init PROVE Typed
  OBVIOUS
<1>1. ServerTyped
  BY DEF Init, ServerTyped
<1>2. TimerTyped
  BY DEF Init, TimerTyped
<1>3. ControlTyped
  BY NothingSeenTyped DEF Init, ControlTyped, Idle, Steps
<1> QED  BY <1>1, <1>2, <1>3 DEF Typed, Init

LEMMA OverwriteTyped ==
    ASSUME ServerTyped, NEW m \in Members, NEW i \in DOMAIN rows[m], NEW s \in Status,
           rows' = [rows EXCEPT ![m][i] = s]
    PROVE  /\ rows' \in [Members -> Seq(Status)]
           /\ \A n \in Members : n # m => rows'[n] = rows[n]
           /\ DOMAIN rows'[m] = DOMAIN rows[m] /\ rows'[m][i] = s
           /\ \A j \in DOMAIN rows[m] : j # i => rows'[m][j] = rows[m][j]
<1> PICK r : r = [rows[m] EXCEPT ![i] = s]
  OBVIOUS
<1>1. rows[m] \in Seq(Status)
  BY DEF ServerTyped
<1>2. /\ r \in Seq(Status) /\ DOMAIN r = DOMAIN rows[m] /\ r[i] = s
      /\ \A j \in DOMAIN rows[m] : j # i => r[j] = rows[m][j]
  BY <1>1
<1>3. rows' = [rows EXCEPT ![m] = r]
  OBVIOUS
<1> QED  BY <1>2, <1>3 DEF ServerTyped

LEMMA FailedCallTyped == ASSUME Typed, NEW p \in Procs, FailedCall(p) PROVE Typed'
<1> USE DEF Typed
<1>0. ~Idle(p) /\ Member(p) \in Members
  <2>1. ~Idle(p)
    BY DEF FailedCall, Idle
  <2> QED  BY <2>1, Working
<1>1. UNCHANGED <<suspect, citizen, rows, config>> /\ clean' \subseteq clean
  BY DEF FailedCall, server
<1>2. ServerTyped' /\ clean' \subseteq Members
  BY <1>1 DEF config, ServerTyped
<1>3. CASE Goto(p, "find") /\ UNCHANGED <<timer, todo, seen, roleless>>
  <2>1. ControlTyped'
    BY <1>0, <1>3, GoesTyped DEF Goes, Steps, ControlTyped
  <2> QED  BY <1>2, <1>3, <2>1 DEF timer, TimerTyped
<1>4. CASE EndArrest(p) /\ UNCHANGED roleless
  <2>1. Leaves(p) /\ seen' = seen /\ UNCHANGED timer
    BY <1>4, EndsArrest
  <2>2. ControlTyped'
    BY <1>0, <2>1, LeavesTyped DEF ControlTyped
  <2> QED  BY <1>2, <1>4, <2>1, <2>2 DEF timer, TimerTyped
<1>5. CASE GoOn(p) /\ UNCHANGED <<timer, todo>>
  <2>1. ControlTyped' /\ roleless' \subseteq Members
    BY <1>0, <1>5, GoOnTyped
  <2> QED  BY <1>2, <1>5, <2>1 DEF timer, TimerTyped
<1>6. CASE NextMember(p, TRUE) /\ UNCHANGED roleless
  BY <1>0, <1>2, <1>6, NextTyped, LeavesTyped
<1> QED  BY <1>3, <1>4, <1>5, <1>6 DEF FailedCall

LEMMA TypedKept == Typed /\ [Next]_vars => Typed'
<1> SUFFICES ASSUME Typed, [Next]_vars PROVE Typed'
  OBVIOUS
<1> USE DEF Typed
<1>1. CASE UNCHANGED vars
  BY <1>1 DEF vars, server, timer, config, control, history, ServerTyped, TimerTyped, ControlTyped,
               Idle
<1>2. ASSUME UNCHANGED <<suspect, citizen, control>>, TimerTyped', clean' \subseteq Members,
             rows' \in [Members -> Seq(Status)], UNCHANGED <<uuidKeys, roleless>>,
             settings' \subseteq Roles, drafts' \subseteq [role: Roles, kept: SUBSET Roles]
      PROVE  Typed'
  BY <1>2 DEF control, ServerTyped, ControlTyped, Idle
<1>3. ASSUME NEW p \in Officers, NEW m \in Members, StartArrest(p, m) \/ StartRelease(p, m)
      PROVE  Typed'
  <2>1. p \in Procs /\ <<m>> \in Seq(Members) /\ <<m>> # <<>>
    BY DEF Procs
  <2>2. /\ Idle(p) /\ UNCHANGED <<server, rows, config, timer, roleless>>
        /\ \E step \in Steps \ {"idle"} : Begin(p, <<m>>, step)
    BY <1>3 DEF StartArrest, StartRelease, Steps
  <2>3. ControlTyped' /\ clean' \subseteq Members
    BY <2>1, <2>2, BeginTyped
  <2> QED  BY <2>2, <2>3 DEF server, timer, config, ServerTyped, TimerTyped
<1>4. ASSUME NEW p \in Officers, NEW m \in Members, NEW i \in DOMAIN rows[m],
             JusticeRelease(p, m, i)
      PROVE  Typed'
  <2>1. p \in Procs /\ <<m>> \in Seq(Members) /\ <<m>> # <<>>
    BY DEF Procs
  <2>2. UNCHANGED <<server, config, timer, roleless>> /\ Idle(p)
    BY <1>4 DEF JusticeRelease
  <2>3. rows' \in [Members -> Seq(Status)]
    BY <1>4, OverwriteTyped DEF JusticeRelease, Status
  <2>4. CASE Begin(p, <<m>>, "check")
    <3>1. ControlTyped' /\ clean' \subseteq Members
      BY <2>1, <2>2, <2>4, BeginTyped DEF Steps
    <3> QED  BY <2>2, <2>3, <3>1 DEF server, timer, config, ServerTyped, TimerTyped
  <2>5. CASE clean' = clean \ {m} /\ UNCHANGED control
    BY <2>2, <2>3, <2>5
       DEF server, timer, config, control, ServerTyped, TimerTyped, ControlTyped, Idle
  <2> QED  BY <1>4, <2>4, <2>5 DEF JusticeRelease
<1>5. ASSUME NEW m \in Members, NEW i \in DOMAIN rows[m], Charge(m, i) \/ RevokeCharge(m, i)
      PROVE  Typed'
  <2>1. rows' \in [Members -> Seq(Status)]
    BY <1>5, OverwriteTyped DEF Charge, RevokeCharge, Status
  <2>2. clean' \subseteq Members
    BY <1>5 DEF Charge, RevokeCharge, Overtake
  <2> QED
    BY <1>2, <1>5, <2>1, <2>2
       DEF Charge, RevokeCharge, server, timer, config, ServerTyped, TimerTyped
<1>6. ASSUME NEW m \in Members, ScheduleAutoRelease(m) \/ TimePasses(m) PROVE Typed'
  <2>1. TimerTyped' /\ clean' = clean
    BY <1>6 DEF ScheduleAutoRelease, TimePasses, TimerTyped, history
  <2> QED
    BY <1>2, <1>6, <2>1
       DEF ScheduleAutoRelease, TimePasses, server, config, history, ServerTyped
<1>7. CASE \/ SetConfig \/ \E role \in Roles : FetchConfig(role)
           \/ \E draft \in drafts : UpdateRoleConfig(draft)
  <2>1. CASE SetConfig
    BY <1>2, <2>1 DEF SetConfig, server, timer, ServerTyped, TimerTyped
  <2>2. ASSUME NEW role \in Roles, FetchConfig(role) PROVE Typed'
    <3>1. [role |-> role, kept |-> settings] \in [role: Roles, kept: SUBSET Roles]
      BY DEF ServerTyped
    <3> QED  BY <1>2, <2>2, <3>1 DEF FetchConfig, server, timer, ServerTyped, TimerTyped
  <2>3. ASSUME NEW draft \in drafts, UpdateRoleConfig(draft) PROVE Typed'
    <3>1. draft.kept \subseteq Roles /\ draft.role \in Roles
      BY DEF ServerTyped
    <3> QED
      BY <1>2, <2>3, <3>1 DEF UpdateRoleConfig, server, timer, history, ServerTyped, TimerTyped
  <2> QED  BY <1>7, <2>1, <2>2, <2>3
<1>8. CASE ProcessAutoRelease
  <2> DEFINE due == {m \in Members : jobs[m] = "due"}
  <2>1. /\ Idle(Scheduler) /\ due # {} /\ Scheduler \in Procs
        /\ UNCHANGED <<server, rows, config, detached, roleless>>
    BY <1>8 DEF ProcessAutoRelease, Procs
  <2>2. ASSUME NEW ms \in SetToSeqs(due), Begin(Scheduler, ms, "check"),
               ready' = due, UNCHANGED jobs
        PROVE  Typed'
    <3>1. ms \in Seq(Members) /\ ms # <<>>
      BY <2>1, <2>2, Batch
    <3>2. ControlTyped' /\ clean' \subseteq Members
      BY <2>1, <2>2, <3>1, BeginTyped DEF Steps
    <3> QED  BY <2>1, <2>2, <3>2 DEF server, config, ServerTyped, TimerTyped
  <2>3. CASE /\ jobs' = [m \in Members |-> IF m \in due THEN "none" ELSE jobs[m]]
             /\ clean' = clean \ due /\ UNCHANGED <<control, ready>>
    BY <2>1, <2>3 DEF server, config, control, ServerTyped, TimerTyped, ControlTyped, Idle
  <2> QED  BY <1>8, <2>2, <2>3 DEF ProcessAutoRelease
<1>9. CASE Restart
  <2>1. ControlTyped'
    BY <1>9, NothingSeenTyped DEF Restart, ControlTyped, Idle, Steps
  <2> QED  BY <1>9, <2>1 DEF Restart, server, ServerTyped, TimerTyped
<1> QED
  BY <1>1, <1>3, <1>4, <1>5, <1>6, <1>7, <1>8, <1>9, StepTyped, FailedCallTyped DEF Next

-----------------------------------------------------------------------------
(* Roles and records *)

\* What holds of a member with whom nothing went wrong, while nobody works on
\* him or she has just begun to.
Rest(m) ==
    IF m \in suspect THEN m \notin citizen /\ ActiveRows(m) # {}
                     ELSE m \in citizen \cup roleless /\ ActiveRows(m) = {}
Single(m) == \A i, j \in ActiveRows(m) : i = j

\* What p has done to m so far.
Phase(p, m) ==
    /\ at[p] = "seize" => Rest(m)
    /\ at[p] = "strip" => m \in suspect
    /\ at[p] = "find" => m \in suspect /\ m \notin citizen
    /\ at[p] = "book" => m \in suspect /\ m \notin citizen /\ ActiveRows(m) = {}
    /\ at[p] = "check" => IF m \in suspect THEN m \notin citizen
                                           ELSE m \in citizen \cup roleless /\ ActiveRows(m) = {}
    /\ at[p] = "remove" => m \in suspect /\ m \notin citizen /\ ~Charged(m)
                           /\ (seen[p].done => m \in roleless)
    /\ at[p] = "add" => m \notin suspect /\ m \notin citizen /\ ~Charged(m)
    /\ at[p] = "look" => m \notin suspect /\ m \in citizen \cup roleless /\ ~Charged(m)
    /\ at[p] = "mark" => m \notin suspect /\ m \in citizen \cup roleless /\ ~Charged(m)
                         /\ seen[p].row \in ActiveRows(m)

\* One call at a time works on a member with whom nothing went wrong.
Fine(m) ==
    /\ Single(m)
    /\ \A p, q \in BusyWith(m) : p = q
    /\ BusyWith(m) = {} => Rest(m)
    /\ \A p \in BusyWith(m) : Phase(p, m)

RInv == \A m \in clean : Fine(m)

Untouched(m) ==
    /\ m \in suspect' <=> m \in suspect
    /\ m \in citizen' <=> m \in citizen
    /\ m \in roleless => m \in roleless'
    /\ rows'[m] = rows[m]

LEMMA UntouchedKeeps ==
    ASSUME NEW m, Untouched(m)
    PROVE  /\ ActiveRows(m)' = ActiveRows(m) /\ ActiveRow(m)' = ActiveRow(m)
           /\ Charged(m)' = Charged(m)
           /\ Single(m) => Single(m)'
           /\ Rest(m) => Rest(m)'
<1>1. ActiveRows(m)' = ActiveRows(m)
  BY DEF Untouched, ActiveRows
<1>2. ActiveRow(m)' = ActiveRow(m)
  BY <1>1 DEF ActiveRow
<1>3. Charged(m)' = Charged(m)
  BY <1>2 DEF Charged, Untouched
<1>4. Single(m) => Single(m)'
  BY <1>1 DEF Single
<1>5. Rest(m) => Rest(m)'
  BY <1>1 DEF Rest, Untouched
<1> QED  BY <1>1, <1>2, <1>3, <1>4, <1>5

LEMMA PhaseKept ==
    ASSUME NEW p, NEW m, Untouched(m), Phase(p, m), at'[p] = at[p], seen'[p] = seen[p]
    PROVE  Phase(p, m)'
<1>1. /\ ActiveRows(m)' = ActiveRows(m) /\ Charged(m)' = Charged(m)
      /\ Rest(m) => Rest(m)'
  BY UntouchedKeeps
<1> QED  BY <1>1 DEF Phase, Untouched

\* A member whom nobody comes to, leaves or changes.
LEMMA ElsewhereFine ==
    ASSUME NEW m, Fine(m), Untouched(m),
           \A p \in Procs : p \in BusyWith(m)' <=> p \in BusyWith(m),
           \A p \in BusyWith(m) : at'[p] = at[p] /\ seen'[p] = seen[p]
    PROVE  Fine(m)'
<1>1. BusyWith(m)' = BusyWith(m)
  BY DEF BusyWith
<1>2. ASSUME NEW p \in BusyWith(m)' PROVE Phase(p, m)'
  <2>1. p \in BusyWith(m) /\ at'[p] = at[p] /\ seen'[p] = seen[p] /\ Phase(p, m)
    BY <1>1, <1>2 DEF Fine
  <2> QED  BY <2>1, PhaseKept
<1>3. Single(m)' /\ (Rest(m) => Rest(m)')
  BY UntouchedKeeps DEF Fine
<1>4. \A p, q \in BusyWith(m)' : p = q
  BY <1>1 DEF Fine
<1>5. BusyWith(m)' = {} => Rest(m)'
  BY <1>1, <1>3 DEF Fine
<1> QED  BY <1>2, <1>3, <1>4, <1>5 DEF Fine

LEMMA StillFine ==
    ASSUME RInv, clean' \subseteq clean, UNCHANGED control,
           \A m \in clean' : Untouched(m)
    PROVE  RInv'
<1> SUFFICES ASSUME NEW m \in clean' PROVE Fine(m)'
  BY DEF RInv
<1>1. /\ \A p \in Procs : p \in BusyWith(m)' <=> p \in BusyWith(m)
      /\ \A p \in BusyWith(m) : at'[p] = at[p] /\ seen'[p] = seen[p]
  BY DEF control, BusyWith, Member
<1>2. Fine(m) /\ Untouched(m)
  BY DEF RInv
<1> QED  BY <1>1, <1>2, ElsewhereFine

\* p goes on with its member.
LEMMA GoesFine ==
    ASSUME Typed, RInv, NEW p \in Procs, ~Idle(p), NEW m0, m0 = Member(p),
           NEW step, Goes(p, step), \A q \in Procs \ {p} : seen'[q] = seen[q],
           clean' \subseteq clean, \A m \in Members \ {m0} : Untouched(m),
           m0 \in clean' => Single(m0)' /\ Phase(p, m0)'
    PROVE  RInv'
<1> SUFFICES ASSUME NEW m \in clean' PROVE Fine(m)'
  BY DEF RInv
<1>0. /\ Fine(m) /\ m \in Members /\ todo' = todo
      /\ \A q \in Procs \ {p} : at'[q] = at[q] /\ seen'[q] = seen[q]
  BY DEF RInv, Goes, Goto, Typed, ControlTyped
<1>1. BusyWith(m)' = BusyWith(m)
  BY <1>0 DEF BusyWith, Member
<1>2. p \in BusyWith(m) <=> m = m0
  BY DEF BusyWith, Typed, ControlTyped
<1>3. CASE m # m0
  <2>1. \A q \in BusyWith(m) : at'[q] = at[q] /\ seen'[q] = seen[q]
    BY <1>0, <1>2, <1>3 DEF BusyWith
  <2> QED  BY <1>0, <1>1, <1>3, <2>1, ElsewhereFine
<1>4. CASE m = m0
  <2>1. BusyWith(m) = {p}
    BY <1>0, <1>2, <1>4 DEF Fine
  <2>2. Single(m)' /\ Phase(p, m)'
    BY <1>4
  <2> QED  BY <1>1, <2>1, <2>2 DEF Fine
<1> QED  BY <1>3, <1>4

\* p is done with its member, and comes to another one or to none.
LEMMA LeavesFine ==
    ASSUME Typed, RInv, NEW p \in Procs, ~Idle(p), NEW m0, m0 = Member(p),
           Leaves(p), \A q \in Procs \ {p} : seen'[q] = seen[q],
           clean' \subseteq clean, \A m \in Members \ {m0} : Untouched(m),
           \A m \in clean' : todo'[p] # <<>> /\ m = Head(todo'[p]) => BusyWith(m) = {},
           m0 \in clean' => Single(m0)' /\ Rest(m0)'
    PROVE  RInv'
<1> SUFFICES ASSUME NEW m \in clean' PROVE Fine(m)'
  BY DEF RInv
<1>0. /\ Fine(m) /\ m \in Members
      /\ at'[p] = (IF todo'[p] = <<>> THEN "idle" ELSE "check")
      /\ \A q \in Procs \ {p} : at'[q] = at[q] /\ todo'[q] = todo[q]
  BY DEF RInv, Leaves, Goto, Typed, ControlTyped
<1>1. \A q \in Procs \ {p} : q \in BusyWith(m)' <=> q \in BusyWith(m)
  BY <1>0 DEF BusyWith, Member
<1>2. p \in BusyWith(m) <=> m = m0
  BY DEF BusyWith, Typed, ControlTyped
<1>3. p \in BusyWith(m)' <=> todo'[p] # <<>> /\ m = Head(todo'[p])
  BY DEF BusyWith, Member
<1>4. CASE m = m0
  <2>1. BusyWith(m) = {p}
    BY <1>0, <1>2, <1>4 DEF Fine
  <2>2. p \notin BusyWith(m)'
    BY <1>3, <2>1
  <2>3. BusyWith(m)' = {}
    BY <1>1, <2>1, <2>2 DEF BusyWith
  <2>4. Single(m)' /\ Rest(m)'
    BY <1>4
  <2> QED  BY <2>3, <2>4 DEF Fine
<1>5. CASE m # m0 /\ p \notin BusyWith(m)'
  <2>1. \A q \in Procs : q \in BusyWith(m)' <=> q \in BusyWith(m)
    BY <1>1, <1>2, <1>5
  <2>2. \A q \in BusyWith(m) : at'[q] = at[q] /\ seen'[q] = seen[q]
    BY <1>0, <1>2, <1>5 DEF BusyWith
  <2> QED  BY <1>0, <1>5, <2>1, <2>2, ElsewhereFine
<1>6. CASE m # m0 /\ p \in BusyWith(m)'
  <2>1. BusyWith(m) = {} /\ at'[p] = "check"
    BY <1>0, <1>3, <1>6
  <2>2. BusyWith(m)' = {p}
    BY <1>1, <1>6, <2>1 DEF BusyWith
  <2>3. Single(m)' /\ Rest(m)'
    BY <1>0, <1>6, <2>1, UntouchedKeeps DEF Fine
  <2>4. Phase(p, m)'
    BY <2>1, <2>3 DEF Phase, Rest
  <2> QED  BY <2>2, <2>3, <2>4 DEF Fine
<1> QED  BY <1>4, <1>5, <1>6

\* p, which was idle, begins with m0.
LEMMA BeginsFine ==
    ASSUME Typed, RInv, NEW p \in Procs, Idle(p), NEW ms \in Seq(Members), ms # <<>>,
           NEW m0, m0 = Head(ms), NEW step, Begin(p, ms, step),
           \A m \in Members \ {m0} : Untouched(m),
           m0 \in clean' /\ BusyWith(m0) = {} => Single(m0)' /\ Phase(p, m0)'
    PROVE  RInv'
<1> SUFFICES ASSUME NEW m \in clean' PROVE Fine(m)'
  BY DEF RInv
<1>0. /\ m \in clean /\ Fine(m) /\ m \in Members
      /\ todo'[p] = ms /\ todo[p] = <<>>
      /\ \A q \in Procs \ {p} : at'[q] = at[q] /\ todo'[q] = todo[q] /\ seen'[q] = seen[q]
  BY BeginSeen DEF RInv, Begin, Goto, Typed, ControlTyped
<1>1. \A q \in Procs \ {p} : q \in BusyWith(m)' <=> q \in BusyWith(m)
  BY <1>0 DEF BusyWith, Member
<1>2. p \notin BusyWith(m) /\ (p \in BusyWith(m)' <=> m = m0)
  BY <1>0 DEF BusyWith, Member
<1>3. CASE m # m0
  <2>1. \A q \in Procs : q \in BusyWith(m)' <=> q \in BusyWith(m)
    BY <1>1, <1>2, <1>3
  <2>2. \A q \in BusyWith(m) : at'[q] = at[q] /\ seen'[q] = seen[q]
    BY <1>0, <1>2 DEF BusyWith
  <2> QED  BY <1>0, <1>3, <2>1, <2>2, ElsewhereFine
<1>4. CASE m = m0
  <2>1. m0 \in Range(ms)
    BY DEF Range
  <2>2. BusyWith(m) = {}
    BY <1>4, <2>1 DEF Begin
  <2>3. BusyWith(m)' = {p}
    BY <1>1, <1>2, <1>4, <2>2 DEF BusyWith
  <2>4. Single(m)' /\ Phase(p, m)'
    BY <1>4, <2>2
  <2> QED  BY <2>3, <2>4 DEF Fine
<1> QED  BY <1>3, <1>4

LEMMA SameRows ==
    ASSUME NEW m, rows'[m] = rows[m]
    PROVE  /\ ActiveRows(m)' = ActiveRows(m) /\ ActiveRow(m)' = ActiveRow(m)
           /\ Charged(m)' = Charged(m) /\ (Single(m) => Single(m)')
<1>1. ActiveRows(m)' = ActiveRows(m)
  BY DEF ActiveRows
<1>2. ActiveRow(m)' = ActiveRow(m)
  BY <1>1 DEF ActiveRow
<1> QED  BY <1>1, <1>2 DEF Charged, Single

\* A call knows how far it has come with a member with whom nothing went wrong.
LEMMA Mine ==
    ASSUME Typed, RInv, NEW p \in Procs, ~Idle(p), NEW m, m = Member(p), m \in clean
    PROVE  Single(m) /\ Phase(p, m)
<1>1. p \in BusyWith(m)
  BY DEF Typed, ControlTyped, BusyWith
<1>2. Fine(m)
  BY DEF RInv
<1> QED  BY <1>1, <1>2 DEF Fine

\* Releasing the one open row leaves none.
LEMMA Released ==
    ASSUME ServerTyped, NEW m \in Members, NEW i \in ActiveRows(m), Single(m),
           rows' = [rows EXCEPT ![m][i] = "released"]
    PROVE  ActiveRows(m)' = {} /\ Single(m)'
<1>1. i \in DOMAIN rows[m] /\ "released" \in Status
  BY DEF ActiveRows, Status
<1>2. /\ DOMAIN rows'[m] = DOMAIN rows[m] /\ rows'[m][i] = "released"
      /\ \A j \in DOMAIN rows[m] : j # i => rows'[m][j] = rows[m][j]
  BY <1>1, OverwriteTyped
<1>3. ASSUME NEW j \in DOMAIN rows'[m], rows'[m][j] # "released" PROVE FALSE
  <2>1. j \in ActiveRows(m) /\ j # i
    BY <1>2, <1>3 DEF ActiveRows
  <2> QED  BY <2>1 DEF Single
<1>4. ActiveRows(m)' = {}
  BY <1>3 DEF ActiveRows
<1> QED  BY <1>4 DEF Single

LEMMA Booked ==
    ASSUME ServerTyped, NEW m \in Members, ActiveRows(m) = {},
           rows' = [rows EXCEPT ![m] = Append(@, "detained")]
    PROVE  ActiveRows(m)' # {} /\ Single(m)'
<1> PICK n : n = Len(rows[m]) + 1
  OBVIOUS
<1> PICK r : r = rows[m]
  OBVIOUS
<1>1. r \in Seq(Status) /\ rows'[m] = Append(r, "detained")
  BY DEF ServerTyped
<1>2. /\ DOMAIN rows'[m] = 1 .. n /\ n \in 1 .. n /\ rows'[m][n] = "detained"
      /\ \A j \in 1 .. n : j # n => j \in DOMAIN rows[m] /\ rows'[m][j] = rows[m][j]
  BY <1>1
<1>3. ActiveRows(m)' = {n}
  BY <1>2 DEF ActiveRows
<1> QED  BY <1>3 DEF Single

LEMMA HeadInRange ==
    ASSUME NEW S, NEW s \in Seq(S), s # <<>>
    PROVE  Head(s) \in Range(s)
<1>1. 1 \in DOMAIN s /\ Head(s) = s[1]
  OBVIOUS
<1> QED  BY <1>1 DEF Range

\* p is done with m0 and goes on to the next of its members.
LEMMA NextFine ==
    ASSUME Typed, RInv, NEW p \in Procs, ~Idle(p), NEW m0, m0 = Member(p),
           NextMember(p, TRUE), clean' \subseteq clean \ SpoiltBy(p),
           \A m \in Members \ {m0} : Untouched(m),
           m0 \in clean' => Single(m0)' /\ Rest(m0)'
    PROVE  RInv'
<1>1. Leaves(p) /\ todo' = [todo EXCEPT ![p] = Tail(@)]
  BY NextTyped
<1>2. \A q \in Procs \ {p} : seen'[q] = seen[q]
  BY DEF NextMember, Typed, ControlTyped
<1>3. todo'[p] = Tail(todo[p]) /\ Tail(todo[p]) \in Seq(Members)
  BY <1>1, Working DEF Typed, ControlTyped
<1>4. ASSUME NEW m \in clean', todo'[p] # <<>>, m = Head(todo'[p]) PROVE BusyWith(m) = {}
  <2>1. m \in Range(Tail(todo[p]))
    BY <1>3, <1>4, HeadInRange
  <2> QED  BY <1>3, <1>4, <2>1 DEF SpoiltBy
<1> QED  BY <1>1, <1>2, <1>4, LeavesFine

LEMMA EndsFine ==
    ASSUME Typed, RInv, NEW p \in Procs, ~Idle(p), NEW m0, m0 = Member(p),
           EndArrest(p), clean' \subseteq clean,
           \A m \in Members \ {m0} : Untouched(m),
           m0 \in clean' => Single(m0)' /\ Rest(m0)'
    PROVE  RInv'
<1>1. Leaves(p) /\ seen' = seen /\ todo'[p] = <<>>
  BY EndsArrest DEF Typed
<1> QED  BY <1>1, LeavesFine

LEMMA StepFine == ASSUME Typed, RInv, NEW p \in Procs, Step(p) PROVE RInv'
<1> PICK m0 : m0 = Member(p)
  OBVIOUS
<1>0. ~Idle(p) /\ m0 \in Members
  <2>1. ~Idle(p)
    BY DEF Step, arrest_user, release_suspects, Seize, Strip, Find, Book, Check,
           RemoveRole, AddRole, Look, Mark, Idle
  <2> QED  BY <2>1, Working DEF Typed
<1>1. m0 \in clean => Single(m0) /\ Phase(p, m0)
  BY <1>0, Mine
<1>2. ASSUME NEW step, Goto(p, step) PROVE at'[p] = step
  BY <1>2 DEF Goto, Typed, ControlTyped
<1>3. ASSUME NEW m, UNCHANGED <<rows, suspect, citizen>>, roleless \subseteq roleless'
      PROVE  Untouched(m)
  BY <1>3 DEF Untouched
<1>4. rows' = rows =>
          /\ ActiveRows(m0)' = ActiveRows(m0) /\ ActiveRow(m0)' = ActiveRow(m0)
          /\ Charged(m0)' = Charged(m0) /\ (Single(m0) => Single(m0)')
  BY SameRows
<1>5. /\ ActiveRow(m0) = 0 <=> ActiveRows(m0) = {}
      /\ ActiveRow(m0) # 0 => ActiveRow(m0) \in ActiveRows(m0)
  BY <1>0, Latest DEF Typed, ServerTyped
<1>6. CASE Seize(p)
  <2>1. at[p] = "seize" /\ Goes(p, "strip") /\ seen' = seen /\ clean' = clean
    BY <1>6 DEF Seize, Goes, history
  <2>2. /\ \A m \in Members \ {m0} : Untouched(m)
        /\ rows' = rows /\ citizen' = citizen /\ m0 \in suspect'
    BY <1>6 DEF Seize, history, Untouched
  <2>3. m0 \in clean => Single(m0)' /\ Phase(p, m0)'
    BY <1>1, <1>2, <1>4, <2>1, <2>2 DEF Phase, Rest, Goes
  <2> QED  BY <1>0, <2>1, <2>2, <2>3, GoesFine
<1>7. CASE Strip(p)
  <2>1. at[p] = "strip" /\ Goes(p, "find") /\ seen' = seen /\ clean' = clean
    BY <1>7 DEF Strip, Goes, history
  <2>2. /\ \A m \in Members \ {m0} : Untouched(m)
        /\ rows' = rows /\ suspect' = suspect /\ m0 \notin citizen'
    BY <1>7 DEF Strip, history, Untouched
  <2>3. m0 \in clean => Single(m0)' /\ Phase(p, m0)'
    BY <1>1, <1>2, <1>4, <2>1, <2>2 DEF Phase, Goes
  <2> QED  BY <1>0, <2>1, <2>2, <2>3, GoesFine
<1>8. CASE Find(p)
  <2>1. /\ at[p] = "find" /\ clean' = clean /\ rows' = rows
        /\ suspect' = suspect /\ citizen' = citizen /\ roleless' = roleless
    BY <1>8 DEF Find, server, history
  <2>2. \A m \in Members \ {m0} : Untouched(m)
    BY <2>1, <1>3
  <2>3. CASE ActiveRow(m0) # 0
    <3>1. EndArrest(p)
      BY <1>8, <2>3 DEF Find
    <3>2. m0 \in clean => Single(m0)' /\ Rest(m0)'
      BY <1>1, <1>4, <1>5, <2>1, <2>3 DEF Phase, Rest
    <3> QED  BY <1>0, <2>1, <2>2, <3>1, <3>2, EndsFine
  <2>4. CASE ActiveRow(m0) = 0
    <3>1. Goes(p, "book") /\ seen' = seen
      BY <1>8, <2>4 DEF Find, Goes
    <3>2. m0 \in clean => Single(m0)' /\ Phase(p, m0)'
      BY <1>1, <1>2, <1>4, <1>5, <2>1, <2>4, <3>1 DEF Phase, Goes
    <3> QED  BY <1>0, <2>1, <2>2, <3>1, <3>2, GoesFine
  <2> QED  BY <2>3, <2>4
<1>9. CASE Book(p)
  <2>1. /\ at[p] = "book" /\ EndArrest(p) /\ clean' = clean
        /\ suspect' = suspect /\ citizen' = citizen /\ roleless' = roleless
        /\ rows' = [rows EXCEPT ![m0] = Append(@, "detained")]
    BY <1>9 DEF Book, server, history
  <2>2. \A m \in Members \ {m0} : Untouched(m)
    BY <2>1 DEF Untouched, Typed, ServerTyped
  <2>3. m0 \in clean => Single(m0)' /\ Rest(m0)'
    <3> SUFFICES ASSUME m0 \in clean PROVE Single(m0)' /\ Rest(m0)'
      OBVIOUS
    <3>1. ActiveRows(m0) = {} /\ m0 \in suspect /\ m0 \notin citizen
      BY <1>1, <2>1 DEF Phase
    <3>2. ActiveRows(m0)' # {} /\ Single(m0)'
      BY <1>0, <2>1, <3>1, Booked DEF Typed
    <3> QED  BY <2>1, <3>1, <3>2 DEF Rest
  <2> QED  BY <1>0, <2>1, <2>2, <2>3, EndsFine
<1>10. CASE Check(p)
  <2>1. at[p] = "check" /\ rows' = rows /\ suspect' = suspect /\ citizen' = citizen
    BY <1>10 DEF Check, server
  <2>2. roleless \subseteq roleless' /\ \A m \in Members \ {m0} : Untouched(m)
    <3>1. roleless \subseteq roleless'
      BY <1>10 DEF Check, GoOn
    <3> QED  BY <2>1, <1>3, <3>1
  <2>3. CASE Charged(m0)
    <3>1. NextMember(p, TRUE) /\ clean' \subseteq clean \ SpoiltBy(p)
      BY <1>10, <2>3 DEF Check, IsCharged
    <3>2. m0 \in clean => Single(m0)' /\ Rest(m0)'
      BY <1>1, <1>4, <1>5, <2>1, <2>3 DEF Phase, Rest, Charged
    <3> QED  BY <1>0, <2>2, <3>1, <3>2, NextFine
  <2>4. CASE ~Charged(m0)
    <3>1. GoOn(p) /\ UNCHANGED todo /\ clean' = clean
      BY <1>10, <2>4 DEF Check, IsCharged
    <3> PICK b \in BOOLEAN : b <=> seen[p].bare \/ m0 \in citizen
      <4>1. CASE seen[p].bare \/ m0 \in citizen
        BY <4>1
      <4>2. CASE ~(seen[p].bare \/ m0 \in citizen)
        BY <4>2
      <4> QED  BY <4>1, <4>2
    <3>2. PICK step : /\ Goto(p, step)
                      /\ m0 \in suspect => step = "remove"
                      /\ m0 \notin suspect => step = IF b THEN "look" ELSE "add"
      <4>1. PICK step : /\ Goto(p, step)
                        /\ step = IF m0 \in suspect THEN "remove"
                                  ELSE IF b THEN "look" ELSE "add"
        BY <3>1 DEF GoOn
      <4> QED  BY <4>1
    <3>3. seen' = [seen EXCEPT ![p].done = b]
      <4>1. b = (seen[p].bare \/ m0 \in citizen)
        OBVIOUS
      <4> QED  BY <3>1, <4>1 DEF GoOn
    <3>4. b <=> seen'[p].done
      BY <3>3 DEF Typed, ControlTyped, Seen
    <3>0. b /\ m0 \notin citizen => m0 \in roleless'
      BY <3>1 DEF GoOn
    <3>5. m0 \in clean => Single(m0)' /\ Phase(p, m0)'
      <4> SUFFICES ASSUME m0 \in clean PROVE Single(m0)' /\ Phase(p, m0)'
        OBVIOUS
      <4>1. m0 \in suspect => m0 \notin citizen
        BY <1>1, <2>1 DEF Phase
      <4>2. Single(m0)' /\ ~Charged(m0)'
        BY <1>1, <1>4, <2>1, <2>4
      <4>3. CASE m0 \in suspect
        <5>1. at'[p] = "remove"
          BY <1>2, <3>2, <4>3
        <5>2. m0 \in suspect' /\ m0 \notin citizen' /\ (seen'[p].done => m0 \in roleless')
          BY <2>1, <3>0, <3>4, <4>1, <4>3
        <5> QED  BY <4>2, <5>1, <5>2 DEF Phase
      <4>4. CASE m0 \notin suspect /\ b
        <5>1. at'[p] = "look"
          BY <1>2, <3>2, <4>4
        <5>2. m0 \in citizen' \cup roleless'
          BY <2>1, <3>0, <4>4
        <5> QED  BY <2>1, <4>2, <4>4, <5>1, <5>2 DEF Phase
      <4>5. CASE m0 \notin suspect /\ ~b
        <5>1. at'[p] = "add" /\ m0 \notin citizen
          BY <1>2, <3>2, <4>5
        <5> QED  BY <2>1, <4>2, <4>5, <5>1 DEF Phase
      <4> QED  BY <4>3, <4>4, <4>5
    <3>6. Goes(p, step) /\ \A q \in Procs \ {p} : seen'[q] = seen[q]
      BY <3>1, <3>2, <3>3 DEF Goes, Typed, ControlTyped
    <3> QED  BY <1>0, <2>2, <3>1, <3>5, <3>6, GoesFine
  <2> QED  BY <2>3, <2>4
<1>11. CASE RemoveRole(p)
  <2>1. PICK step : /\ at[p] = "remove" /\ Goes(p, step) /\ seen' = seen /\ clean' = clean
                    /\ step = IF seen[p].done THEN "look" ELSE "add"
    BY <1>11 DEF RemoveRole, Goes, history
  <2>2. /\ \A m \in Members \ {m0} : Untouched(m)
        /\ rows' = rows /\ citizen' = citizen /\ roleless' = roleless /\ m0 \notin suspect'
    BY <1>11 DEF RemoveRole, history, Untouched
  <2>3. m0 \in clean => Single(m0)' /\ Phase(p, m0)'
    BY <1>1, <1>2, <1>4, <2>1, <2>2 DEF Phase, Goes
  <2> QED  BY <1>0, <2>1, <2>2, <2>3, GoesFine
<1>12. CASE AddRole(p)
  <2>1. at[p] = "add" /\ Goes(p, "look") /\ seen' = seen /\ clean' = clean
    BY <1>12 DEF AddRole, Goes, history
  <2>2. /\ \A m \in Members \ {m0} : Untouched(m)
        /\ rows' = rows /\ suspect' = suspect /\ m0 \in citizen'
    BY <1>12 DEF AddRole, Untouched
  <2>3. m0 \in clean => Single(m0)' /\ Phase(p, m0)'
    BY <1>1, <1>2, <1>4, <2>1, <2>2 DEF Phase, Goes
  <2> QED  BY <1>0, <2>1, <2>2, <2>3, GoesFine
<1>13. CASE Look(p)
  <2>1. /\ at[p] = "look" /\ rows' = rows /\ suspect' = suspect /\ citizen' = citizen
        /\ roleless' = roleless
    BY <1>13 DEF Look, server
  <2>2. \A m \in Members \ {m0} : Untouched(m)
    BY <2>1, <1>3
  <2>3. CASE ActiveRow(m0) = 0 \/ uuidKeys
    <3>1. /\ NextMember(p, TRUE)
          /\ clean' = clean \ (SpoiltBy(p) \cup IF ActiveRow(m0) = 0 THEN {} ELSE {m0})
      BY <1>13, <2>3 DEF Look
    <3>2. clean' \subseteq clean \ SpoiltBy(p)
      BY <3>1
    <3>3. m0 \in clean' => m0 \in clean /\ ActiveRow(m0) = 0
      BY <3>1
    <3>4. m0 \in clean' => Single(m0)' /\ Rest(m0)'
      BY <1>1, <1>4, <1>5, <2>1, <3>3 DEF Phase, Rest
    <3> QED  BY <1>0, <2>2, <3>1, <3>2, <3>4, NextFine
  <2>4. CASE ~(ActiveRow(m0) = 0 \/ uuidKeys)
    <3>1. /\ Goes(p, "mark") /\ clean' = clean
          /\ seen' = [seen EXCEPT ![p].row = ActiveRow(m0)]
      BY <1>13, <2>4 DEF Look, Goes
    <3>2. seen'[p].row = ActiveRow(m0) /\ \A q \in Procs \ {p} : seen'[q] = seen[q]
      BY <3>1 DEF Typed, ControlTyped, Seen
    <3>3. m0 \in clean => Single(m0)' /\ Phase(p, m0)'
      BY <1>1, <1>2, <1>4, <1>5, <2>1, <2>4, <3>1, <3>2 DEF Phase, Goes
    <3> QED  BY <1>0, <2>2, <3>1, <3>2, <3>3, GoesFine
  <2> QED  BY <2>3, <2>4
<1>14. CASE Mark(p)
  <2>1. /\ at[p] = "mark" /\ NextMember(p, TRUE) /\ clean' \subseteq clean \ SpoiltBy(p)
        /\ suspect' = suspect /\ citizen' = citizen /\ roleless' = roleless
        /\ rows' = [rows EXCEPT ![m0][seen[p].row] = "released"]
    BY <1>14 DEF Mark, server
  <2>2. \A m \in Members \ {m0} : Untouched(m)
    BY <2>1 DEF Untouched, Typed, ServerTyped
  <2>3. m0 \in clean' => Single(m0)' /\ Rest(m0)'
    <3> SUFFICES ASSUME m0 \in clean' PROVE Single(m0)' /\ Rest(m0)'
      OBVIOUS
    <3>1. m0 \in clean
      BY <2>1
    <3>2. /\ Single(m0) /\ seen[p].row \in ActiveRows(m0)
          /\ m0 \notin suspect /\ m0 \in citizen \cup roleless
      BY <1>1, <2>1, <3>1 DEF Phase
    <3>3. ActiveRows(m0)' = {} /\ Single(m0)'
      BY <1>0, <2>1, <3>2, Released DEF Typed
    <3> QED  BY <2>1, <3>2, <3>3 DEF Rest
  <2> QED  BY <1>0, <2>1, <2>2, <2>3, NextFine
<1> QED
  BY <1>6, <1>7, <1>8, <1>9, <1>10, <1>11, <1>12, <1>13, <1>14
  DEF Step, arrest_user, release_suspects

LEMMA FailedFine == ASSUME Typed, RInv, NEW p \in Procs, FailedCall(p) PROVE RInv'
<1> PICK m0 : m0 = Member(p)
  OBVIOUS
<1>0. ~Idle(p) /\ \A m \in Members \ {m0} : Untouched(m)
  BY GoOnTyped DEF FailedCall, GoOn, Idle, server, Untouched
<1>1. CASE Goto(p, "find") /\ UNCHANGED <<timer, todo, seen>> /\ clean' = clean \ {m0}
  <2>1. Goes(p, "find")
    BY <1>1 DEF Goes
  <2> QED  BY <1>0, <1>1, <2>1, GoesFine
<1>2. CASE EndArrest(p) /\ clean' = clean \ {m0}
  BY <1>0, <1>2, EndsFine
<1>3. CASE GoOn(p) /\ UNCHANGED <<timer, todo>> /\ clean' = clean \ {m0}
  <2>1. PICK step : Goes(p, step)
    BY <1>0, <1>3, GoOnTyped DEF Typed
  <2>2. \A q \in Procs \ {p} : seen'[q] = seen[q]
    BY <1>3 DEF GoOn, Typed, ControlTyped
  <2> QED  BY <1>0, <1>3, <2>1, <2>2, GoesFine
<1>4. CASE NextMember(p, TRUE) /\ clean' = clean \ ({m0} \cup SpoiltBy(p))
  BY <1>0, <1>4, NextFine
<1> QED  BY <1>1, <1>2, <1>3, <1>4 DEF FailedCall

\* A record is changed while nobody works on its member: he stays at rest.
LEMMA RecordFine ==
    ASSUME RInv, NEW m0, UNCHANGED <<control, suspect, citizen, roleless>>, clean' \subseteq clean,
           m0 \in clean' => BusyWith(m0) = {},
           \A m \in Members \ {m0} : rows'[m] = rows[m], clean \subseteq Members,
           ActiveRows(m0)' = ActiveRows(m0)
    PROVE  RInv'
<1> SUFFICES ASSUME NEW m \in clean' PROVE Fine(m)'
  BY DEF RInv
<1>1. /\ \A p \in Procs : p \in BusyWith(m)' <=> p \in BusyWith(m)
      /\ \A p \in BusyWith(m) : at'[p] = at[p] /\ seen'[p] = seen[p]
  BY DEF control, BusyWith, Member
<1>2. Fine(m)
  BY DEF RInv
<1>3. CASE m # m0
  <2>1. Untouched(m)
    BY <1>3 DEF Untouched
  <2> QED  BY <1>1, <1>2, <2>1, ElsewhereFine
<1>4. CASE m = m0
  <2>1. BusyWith(m) = {} /\ BusyWith(m)' = {}
    BY <1>1, <1>4 DEF BusyWith
  <2>2. Single(m)' /\ Rest(m)'
    BY <1>2, <1>4, <2>1 DEF Fine, Single, Rest
  <2> QED  BY <2>1, <2>2 DEF Fine
<1> QED  BY <1>3, <1>4

LEMMA RInvKept == Typed /\ RInv /\ [Next]_vars => RInv'
<1> SUFFICES ASSUME Typed, RInv, [Next]_vars PROVE RInv'
  OBVIOUS
<1>0. ASSUME UNCHANGED <<suspect, citizen, rows, roleless>> PROVE \A m : Untouched(m)
  BY <1>0 DEF Untouched
<1>1. CASE UNCHANGED vars
  BY <1>0, <1>1, StillFine DEF vars, server, history
<1>2. ASSUME NEW p \in Officers, NEW m \in Members, StartArrest(p, m) \/ StartRelease(p, m)
      PROVE  RInv'
  <2>1. PICK ms : ms = <<m>>
    OBVIOUS
  <2>2. p \in Procs /\ ms \in Seq(Members) /\ ms # <<>> /\ m = Head(ms)
    BY <2>1 DEF Procs
  <2>3. PICK step \in {"seize", "check"} : Begin(p, ms, step)
    BY <1>2, <2>1 DEF StartArrest, StartRelease
  <2>4. Idle(p) /\ UNCHANGED <<suspect, citizen, rows, roleless>>
    BY <1>2 DEF StartArrest, StartRelease, server
  <2>5. at'[p] = step /\ clean' \subseteq clean
    BY <2>2, <2>3 DEF Begin, Goto, Typed, ControlTyped
  <2>6. m \in clean' /\ BusyWith(m) = {} => Single(m)' /\ Phase(p, m)'
    <3> SUFFICES ASSUME m \in clean', BusyWith(m) = {} PROVE Single(m)' /\ Phase(p, m)'
      OBVIOUS
    <3>1. Single(m) /\ Rest(m)
      BY <2>5 DEF RInv, Fine
    <3>2. Single(m)' /\ Rest(m)'
      BY <1>0, <2>4, <3>1, UntouchedKeeps
    <3> QED  BY <2>5, <3>2 DEF Phase, Rest
  <2> QED  BY <1>0, <2>2, <2>3, <2>4, <2>6, BeginsFine
<1>3. ASSUME NEW p \in Officers, NEW m \in Members, NEW i \in DOMAIN rows[m],
             JusticeRelease(p, m, i)
      PROVE  RInv'
  <2>1. PICK ms : ms = <<m>>
    OBVIOUS
  <2>2. p \in Procs /\ ms \in Seq(Members) /\ ms # <<>> /\ m = Head(ms)
    BY <2>1 DEF Procs
  <2>3. /\ Idle(p) /\ UNCHANGED <<suspect, citizen, roleless>>
        /\ rows[m][i] # "released" /\ rows' = [rows EXCEPT ![m][i] = "released"]
    BY <1>3 DEF JusticeRelease, server
  <2>4. \A n \in Members \ {m} : Untouched(n)
    BY <2>3 DEF Untouched, Typed, ServerTyped
  <2>5. CASE Begin(p, ms, "check")
    <3>1. at'[p] = "check" /\ clean' \subseteq clean
      BY <2>2, <2>5 DEF Begin, Goto, Typed, ControlTyped
    <3>2. m \in clean' /\ BusyWith(m) = {} => Single(m)' /\ Phase(p, m)'
      <4> SUFFICES ASSUME m \in clean', BusyWith(m) = {} PROVE Single(m)' /\ Phase(p, m)'
        OBVIOUS
      <4>1. Single(m) /\ Rest(m)
        BY <3>1 DEF RInv, Fine
      <4>2. i \in ActiveRows(m)
        BY <2>3 DEF ActiveRows
      <4>3. m \in suspect /\ m \notin citizen
        BY <4>1, <4>2 DEF Rest
      <4>4. ActiveRows(m)' = {} /\ Single(m)'
        BY <2>3, <4>1, <4>2, Released DEF Typed
      <4> QED  BY <2>3, <3>1, <4>3, <4>4 DEF Phase
    <3> QED  BY <2>2, <2>3, <2>4, <2>5, <3>2, BeginsFine
  <2>6. CASE clean' = clean \ {m} /\ UNCHANGED control
    <3>1. UNCHANGED control /\ clean' \subseteq clean /\ \A n \in clean' : Untouched(n)
      BY <2>3, <2>4, <2>6 DEF Typed
    <3> QED  BY <3>1, StillFine
  <2> QED  BY <1>3, <2>1, <2>5, <2>6 DEF JusticeRelease
<1>4. ASSUME NEW m \in Members, NEW i \in DOMAIN rows[m], Charge(m, i) \/ RevokeCharge(m, i)
      PROVE  RInv'
  <2>1. PICK s \in Status \ {"released"} :
            rows[m][i] # "released" /\ rows' = [rows EXCEPT ![m][i] = s]
    BY <1>4 DEF Charge, RevokeCharge, Status
  <2>2. /\ \A n \in Members : n # m => rows'[n] = rows[n]
        /\ DOMAIN rows'[m] = DOMAIN rows[m] /\ rows'[m][i] = s
        /\ \A j \in DOMAIN rows[m] : j # i => rows'[m][j] = rows[m][j]
    BY <2>1, OverwriteTyped DEF Typed
  <2>3. ActiveRows(m)' = ActiveRows(m)
    BY <2>1, <2>2 DEF ActiveRows
  <2>4. /\ UNCHANGED <<control, suspect, citizen, roleless>> /\ clean' \subseteq clean
        /\ m \in clean' => BusyWith(m) = {}
    BY <1>4 DEF Charge, RevokeCharge, Overtake, server
  <2> QED  BY <2>2, <2>3, <2>4, RecordFine DEF Typed
<1>5. ASSUME NEW m \in Members, ScheduleAutoRelease(m) \/ TimePasses(m) PROVE RInv'
  <2>1. UNCHANGED <<suspect, citizen, rows, roleless, control, clean>>
    BY <1>5 DEF ScheduleAutoRelease, TimePasses, server, history
  <2> QED  BY <1>0, <2>1, StillFine
<1>6. CASE \/ SetConfig \/ \E role \in Roles : FetchConfig(role)
           \/ \E draft \in drafts : UpdateRoleConfig(draft)
  <2>1. UNCHANGED <<suspect, citizen, rows, roleless, control, clean>>
    BY <1>6 DEF SetConfig, FetchConfig, UpdateRoleConfig, server, history
  <2> QED  BY <1>0, <2>1, StillFine
<1>7. CASE ProcessAutoRelease
  <2> DEFINE due == {m \in Members : jobs[m] = "due"}
  <2>1. /\ Idle(Scheduler) /\ due # {} /\ Scheduler \in Procs
        /\ UNCHANGED <<suspect, citizen, rows, roleless>>
    BY <1>7 DEF ProcessAutoRelease, Procs, server
  <2>2. ASSUME NEW ms \in SetToSeqs(due), Begin(Scheduler, ms, "check")
        PROVE  RInv'
    <3>1. ms \in Seq(Members) /\ ms # <<>>
      BY <2>1, <2>2, Batch
    <3>2. PICK m : m = Head(ms)
      OBVIOUS
    <3>3. at'[Scheduler] = "check" /\ clean' \subseteq clean
      BY <2>1, <2>2 DEF Begin, Goto, Typed, ControlTyped
    <3>4. m \in clean' /\ BusyWith(m) = {} => Single(m)' /\ Phase(Scheduler, m)'
      <4> SUFFICES ASSUME m \in clean', BusyWith(m) = {}
                   PROVE  Single(m)' /\ Phase(Scheduler, m)'
        OBVIOUS
      <4>1. Single(m) /\ Rest(m)
        BY <3>3 DEF RInv, Fine
      <4>2. Single(m)' /\ Rest(m)'
        BY <1>0, <2>1, <4>1, UntouchedKeeps
      <4> QED  BY <3>3, <4>2 DEF Phase, Rest
    <3> QED  BY <1>0, <2>1, <2>2, <3>1, <3>2, <3>4, BeginsFine
  <2>3. CASE clean' = clean \ due /\ UNCHANGED <<control, ready>>
    <3>1. UNCHANGED control /\ clean' \subseteq clean
      BY <2>3
    <3> QED  BY <1>0, <2>1, <3>1, StillFine
  <2> QED  BY <1>7, <2>2, <2>3 DEF ProcessAutoRelease
<1>8. CASE Restart
  <2> SUFFICES ASSUME NEW m \in clean' PROVE Fine(m)'
    BY DEF RInv
  <2>1. /\ todo' = [p \in Procs |-> <<>>] /\ m \in clean
        /\ \A p \in Procs : m \notin Range(todo[p])
        /\ UNCHANGED <<suspect, citizen, rows, roleless>>
    BY <1>8 DEF Restart, server
  <2>2. BusyWith(m)' = {}
    BY <2>1 DEF BusyWith
  <2>3. ASSUME NEW p \in BusyWith(m) PROVE FALSE
    <3>1. p \in Procs /\ todo[p] \in Seq(Members) /\ todo[p] # <<>> /\ m = Head(todo[p])
      BY <2>3 DEF BusyWith, Member, Typed, ControlTyped
    <3> QED  BY <2>1, <3>1, HeadInRange
  <2>4. BusyWith(m) = {}
    BY <2>3
  <2>5. Single(m)' /\ Rest(m)'
    BY <1>0, <2>1, <2>4, UntouchedKeeps DEF RInv, Fine
  <2> QED  BY <2>2, <2>5 DEF Fine
<1> QED
  BY <1>1, <1>2, <1>3, <1>4, <1>5, <1>6, <1>7, <1>8, StepFine, FailedFine DEF Next

-----------------------------------------------------------------------------
(* Jobs *)

\* The steps of a call that has taken the suspect role away, or found it gone.
Freeing == {"add", "look", "mark"}

\* Only p moves: it was not freeing its member, or cancels the member's job,
\* or goes on freeing him.
LEMMA JobsKept ==
    ASSUME NoJobForTheFree, NEW p \in Procs, suspect \subseteq suspect',
           \A q \in Procs \ {p} : at'[q] = at[q] /\ todo'[q] = todo[q],
           \A m \in Members : jobs'[m] # "none" => jobs[m] # "none",
           \/ at[p] \notin Freeing
           \/ jobs'[Member(p)] = "none"
           \/ at'[p] \in Freeing /\ todo'[p] = todo[p]
    PROVE  NoJobForTheFree'
<1> SUFFICES ASSUME NEW m \in Members, jobs'[m] # "none", m \notin suspect'
             PROVE  \E q \in BusyWith(m)' : at'[q] \in Freeing
  BY DEF NoJobForTheFree, Freeing
<1>1. PICK q \in BusyWith(m) : at[q] \in Freeing
  BY DEF NoJobForTheFree, Freeing
<1>2. q \in Procs /\ todo[q] # <<>> /\ m = Member(q)
  BY <1>1 DEF BusyWith
<1>3. at'[q] \in Freeing /\ todo'[q] = todo[q]
  BY <1>1, <1>2
<1>4. q \in BusyWith(m)'
  BY <1>2, <1>3 DEF BusyWith, Member
<1> QED  BY <1>3, <1>4

\* Nobody moves, and only a suspect gets a job.
LEMMA JobsStill ==
    ASSUME NoJobForTheFree, UNCHANGED <<suspect, at, todo>>,
           \A m \in Members : jobs'[m] # "none" => jobs[m] # "none" \/ m \in suspect
    PROVE  NoJobForTheFree'
<1> SUFFICES ASSUME NEW m \in Members, jobs'[m] # "none", m \notin suspect
             PROVE  \E q \in BusyWith(m)' : at'[q] \in Freeing
  BY DEF NoJobForTheFree, Freeing
<1>1. PICK q \in BusyWith(m) : at[q] \in Freeing
  BY DEF NoJobForTheFree, Freeing
<1> QED  BY <1>1 DEF BusyWith, Member

LEMMA StepJobs == ASSUME Typed, NoJobForTheFree, NEW p \in Procs, Step(p) \/ FailedCall(p)
                  PROVE  NoJobForTheFree'
<1>0. ~Idle(p)
  BY DEF Step, arrest_user, release_suspects, Seize, Strip, Find, Book, Check,
         RemoveRole, AddRole, Look, Mark, FailedCall, Idle
<1>1. CASE /\ suspect \subseteq suspect' /\ \E step : Goes(p, step)
           /\ UNCHANGED timer /\ (at[p] \in Freeing => at'[p] \in Freeing)
  <2>1. /\ \A q \in Procs \ {p} : at'[q] = at[q] /\ todo'[q] = todo[q]
        /\ todo'[p] = todo[p] /\ jobs' = jobs
    BY <1>1 DEF Goes, Goto, timer, Typed, ControlTyped
  <2> QED  BY <1>1, <2>1, JobsKept
<1>2. CASE EndArrest(p) /\ at[p] \notin Freeing /\ suspect \subseteq suspect'
  <2>1. /\ \A q \in Procs \ {p} : at'[q] = at[q] /\ todo'[q] = todo[q]
        /\ jobs' = jobs
    BY <1>2 DEF EndArrest, Goto, timer, Typed, ControlTyped
  <2> QED  BY <1>2, <2>1, JobsKept
<1>3. CASE NextMember(p, TRUE) /\ suspect \subseteq suspect'
  <2>0. /\ Leaves(p) /\ todo' = [todo EXCEPT ![p] = Tail(@)]
        /\ jobs'[Member(p)] = "none"
        /\ \A m \in Members : jobs'[m] # "none" => jobs'[m] = jobs[m]
    BY <1>0, <1>3, NextTyped
  <2>1. \A q \in Procs \ {p} : at'[q] = at[q] /\ todo'[q] = todo[q]
    BY <2>0 DEF Leaves, Goto, Typed, ControlTyped
  <2>2. \A m \in Members : jobs'[m] # "none" => jobs[m] # "none"
    BY <2>0
  <2> QED  BY <1>3, <2>0, <2>1, <2>2, JobsKept
<1>4. CASE RemoveRole(p)
  <2>1. /\ at'[p] \in Freeing /\ todo' = todo /\ jobs' = jobs
        /\ \A q \in Procs \ {p} : at'[q] = at[q]
        /\ suspect' = suspect \ {Member(p)} /\ at[p] = "remove"
    BY <1>4 DEF RemoveRole, Goto, timer, Typed, ControlTyped, Freeing
  <2> SUFFICES ASSUME NEW m \in Members, jobs'[m] # "none", m \notin suspect'
               PROVE  \E q \in BusyWith(m)' : at'[q] \in Freeing
    BY DEF NoJobForTheFree, Freeing
  <2>2. BusyWith(m)' = BusyWith(m)
    BY <2>1 DEF BusyWith, Member
  <2>3. CASE m = Member(p)
    <3>1. p \in BusyWith(m)
      BY <1>0, <2>3 DEF BusyWith, Typed, ControlTyped
    <3> QED  BY <2>1, <2>2, <3>1
  <2>4. CASE m # Member(p)
    <3>1. PICK q \in BusyWith(m) : at[q] \in Freeing
      BY <2>1, <2>4 DEF NoJobForTheFree, Freeing
    <3>2. q # p /\ q \in Procs
      BY <2>1, <3>1 DEF BusyWith, Freeing
    <3> QED  BY <2>1, <2>2, <3>1, <3>2
  <2> QED  BY <2>3, <2>4
<1>5. CASE Seize(p) \/ Strip(p) \/ AddRole(p)
  BY <1>1, <1>5 DEF Seize, Strip, AddRole, Goes, Goto, Freeing, Typed, ControlTyped
<1>6. CASE Find(p)
  <2>1. at[p] = "find" /\ suspect' = suspect
    BY <1>6 DEF Find, server
  <2>2. CASE EndArrest(p)
    BY <1>2, <2>1, <2>2 DEF Freeing
  <2>3. CASE Goto(p, "book") /\ UNCHANGED <<timer, todo, seen>>
    BY <1>1, <2>1, <2>3 DEF Goes, Freeing
  <2> QED  BY <1>6, <2>2, <2>3 DEF Find
<1>7. CASE Book(p)
  BY <1>2, <1>7 DEF Book, server, Freeing
<1>8. CASE Check(p)
  <2>1. at[p] = "check" /\ suspect' = suspect
    BY <1>8 DEF Check, server
  <2>2. CASE NextMember(p, TRUE)
    BY <1>3, <2>1, <2>2
  <2>3. CASE GoOn(p) /\ UNCHANGED <<timer, todo, clean>>
    BY <1>0, <1>1, <2>1, <2>3, GoOnTyped DEF Typed, Freeing
  <2> QED  BY <1>8, <2>2, <2>3 DEF Check
<1>9. CASE Look(p)
  <2>1. at[p] = "look" /\ suspect' = suspect
    BY <1>9 DEF Look, server
  <2>2. CASE NextMember(p, TRUE)
    BY <1>3, <2>1, <2>2
  <2>3. CASE Goto(p, "mark") /\ UNCHANGED <<timer, todo, clean>>
    BY <1>1, <2>1, <2>3 DEF Goes, Goto, Freeing, Typed, ControlTyped
  <2> QED  BY <1>9, <2>2, <2>3 DEF Look
<1>10. CASE Mark(p)
  BY <1>3, <1>10 DEF Mark, server
<1>11. CASE FailedCall(p)
  <2>1. suspect' = suspect
    BY <1>11 DEF FailedCall, server
  <2>2. CASE at[p] = "strip" /\ Goto(p, "find") /\ UNCHANGED <<timer, todo, seen>>
    BY <1>1, <2>1, <2>2 DEF Goes, Freeing
  <2>3. CASE at[p] \in {"seize", "find", "book"} /\ EndArrest(p)
    BY <1>2, <2>1, <2>3 DEF Freeing
  <2>4. CASE at[p] = "check" /\ GoOn(p) /\ UNCHANGED <<timer, todo>>
    BY <1>0, <1>1, <2>1, <2>4, GoOnTyped DEF Typed, Freeing
  <2>5. CASE NextMember(p, TRUE)
    BY <1>3, <2>1, <2>5
  <2> QED  BY <1>11, <2>2, <2>3, <2>4, <2>5 DEF FailedCall
<1> QED
  BY <1>4, <1>5, <1>6, <1>7, <1>8, <1>9, <1>10, <1>11
  DEF Step, arrest_user, release_suspects

LEMMA NoJobKept == Typed /\ NoJobForTheFree /\ [Next]_vars => NoJobForTheFree'
<1> SUFFICES ASSUME Typed, NoJobForTheFree, [Next]_vars PROVE NoJobForTheFree'
  OBVIOUS
<1>1. ASSUME UNCHANGED <<suspect, at, todo, jobs>> PROVE NoJobForTheFree'
  BY <1>1, JobsStill
<1>2. ASSUME NEW p \in Procs, Idle(p), NEW ms, NEW step, Begin(p, ms, step),
             UNCHANGED <<suspect, jobs>>
      PROVE  NoJobForTheFree'
  <2>1. \A q \in Procs \ {p} : at'[q] = at[q] /\ todo'[q] = todo[q]
    BY <1>2 DEF Begin, Goto, Typed, ControlTyped
  <2>2. at[p] \notin Freeing
    BY <1>2 DEF Idle, Freeing
  <2> QED  BY <1>2, <2>1, <2>2, JobsKept
<1>3. CASE UNCHANGED vars
  BY <1>1, <1>3 DEF vars, server, timer, control
<1>4. ASSUME NEW p \in Officers, NEW m \in Members, StartArrest(p, m) \/ StartRelease(p, m)
      PROVE  NoJobForTheFree'
  <2>1. p \in Procs /\ Idle(p) /\ UNCHANGED <<suspect, jobs>>
    BY <1>4 DEF StartArrest, StartRelease, server, timer, Procs
  <2>2. \E step : Begin(p, <<m>>, step)
    BY <1>4 DEF StartArrest, StartRelease
  <2> QED  BY <1>2, <2>1, <2>2
<1>5. ASSUME NEW p \in Officers, NEW m \in Members, NEW i \in DOMAIN rows[m],
             JusticeRelease(p, m, i)
      PROVE  NoJobForTheFree'
  <2>1. p \in Procs /\ Idle(p) /\ UNCHANGED <<suspect, jobs>>
    BY <1>5 DEF JusticeRelease, server, timer, Procs
  <2>2. Begin(p, <<m>>, "check") \/ UNCHANGED <<at, todo>>
    BY <1>5 DEF JusticeRelease, control
  <2> QED  BY <1>1, <1>2, <2>1, <2>2
<1>6. ASSUME NEW m \in Members, NEW i \in DOMAIN rows[m], Charge(m, i) \/ RevokeCharge(m, i)
      PROVE  NoJobForTheFree'
  BY <1>1, <1>6 DEF Charge, RevokeCharge, server, timer, control
<1>7. ASSUME NEW m \in Members, ScheduleAutoRelease(m) \/ TimePasses(m)
      PROVE  NoJobForTheFree'
  <2>1. /\ UNCHANGED <<suspect, at, todo>>
        /\ \A n \in Members : jobs'[n] # "none" => jobs[n] # "none" \/ n \in suspect
    BY <1>7 DEF ScheduleAutoRelease, TimePasses, server, control, Typed, TimerTyped
  <2> QED  BY <2>1, JobsStill
<1>8. CASE \/ SetConfig \/ \E role \in Roles : FetchConfig(role)
           \/ \E draft \in drafts : UpdateRoleConfig(draft)
  BY <1>1, <1>8 DEF SetConfig, FetchConfig, UpdateRoleConfig, server, timer, control
<1>9. CASE ProcessAutoRelease
  <2> DEFINE due == {m \in Members : jobs[m] = "due"}
  <2>1. Idle(Scheduler) /\ Scheduler \in Procs /\ suspect' = suspect
    BY <1>9 DEF ProcessAutoRelease, Procs, server
  <2>2. CASE (\E ms \in SetToSeqs(due) : Begin(Scheduler, ms, "check")) /\ UNCHANGED jobs
    BY <1>2, <2>1, <2>2
  <2>3. CASE /\ jobs' = [m \in Members |-> IF m \in due THEN "none" ELSE jobs[m]]
             /\ UNCHANGED <<control, ready>>
    <3>1. \A m \in Members : jobs'[m] # "none" => jobs[m] # "none"
      BY <2>3
    <3> QED  BY <2>1, <2>3, <3>1, JobsStill DEF control
  <2> QED  BY <1>9, <2>2, <2>3 DEF ProcessAutoRelease
<1>10. CASE Restart
  BY <1>10 DEF Restart, NoJobForTheFree
<1> QED
  BY <1>3, <1>4, <1>5, <1>6, <1>7, <1>8, <1>9, <1>10, StepJobs DEF Next

-----------------------------------------------------------------------------
(* Theorems *)

IInv == Typed /\ RInv /\ NoJobForTheFree

LEMMA IInvAtFirst == Init => IInv
<1> SUFFICES ASSUME Init PROVE IInv
  OBVIOUS
<1>1. Typed
  BY TypedAtFirst
<1>2. ASSUME NEW m \in clean PROVE Fine(m)
  <2>1. BusyWith(m) = {} /\ ActiveRows(m) = {} /\ m \in citizen /\ m \notin suspect
    BY <1>2 DEF Init, BusyWith, ActiveRows
  <2> QED  BY <2>1 DEF Fine, Single, Rest
<1>3. NoJobForTheFree
  BY DEF Init, NoJobForTheFree
<1> QED  BY <1>1, <1>2, <1>3 DEF IInv, RInv

LEMMA IInvHolds == Spec => []IInv
<1>1. IInv /\ [Next]_vars => IInv'
  BY TypedKept, RInvKept, NoJobKept DEF IInv
<1> QED  BY <1>1, IInvAtFirst, PTL DEF Spec

LEMMA RecordsCounted == IInv => RolesMatchRecords
<1> SUFFICES ASSUME IInv, NEW m \in clean, BusyWith(m) = {}
             PROVE  /\ Cardinality(ActiveRows(m)) = (IF m \in suspect THEN 1 ELSE 0)
                    /\ m \in suspect => m \notin citizen
                    /\ m \in suspect \cup citizen \cup roleless
  BY DEF RolesMatchRecords
<1>1. Single(m) /\ Rest(m)
  BY DEF IInv, RInv, Fine
<1>2. CASE m \in suspect
  <2>1. PICK i \in ActiveRows(m) : TRUE
    BY <1>1, <1>2 DEF Rest
  <2>2. ActiveRows(m) = {i}
    BY <1>1, <2>1 DEF Single
  <2>3. Cardinality(ActiveRows(m)) = 1
    BY <2>2, FS_Singleton
  <2> QED  BY <1>1, <1>2, <2>3 DEF Rest
<1>3. CASE m \notin suspect
  <2>1. Cardinality(ActiveRows(m)) = 0
    BY <1>1, <1>3, FS_EmptySet DEF Rest
  <2> QED  BY <1>1, <1>3, <2>1 DEF Rest
<1> QED  BY <1>2, <1>3

\* Whatever the calls of officers and scheduler interleave, fail or are cut
\* off by a restart: roles, records and jobs agree about every member whom no
\* call works on and with whom nothing went wrong, and a member who lost the
\* suspect role has no job left that would release him once more.
THEOREM Coherent == Spec => []StateIsCoherent
<1>1. IInv => StateIsCoherent
  BY Types, RecordsCounted DEF IInv, StateIsCoherent
<1> QED  BY <1>1, IInvHolds, PTL

\* No call of security or of the scheduler frees a member whom justice has
\* charged, once the charge was there for the check to see.
THEOREM Kept == Spec => []ChargedAreKept
<1>1. IInv => ChargedAreKept
  <2> SUFFICES ASSUME IInv, NEW p \in Procs, at[p] \in {"remove", "add", "look", "mark"},
                      Member(p) \in clean
               PROVE  ~Charged(Member(p))
    BY DEF ChargedAreKept
  <2>1. ~Idle(p)
    BY DEF Idle
  <2>2. PICK m : m = Member(p)
    OBVIOUS
  <2>3. Phase(p, m)
    BY <2>1, <2>2, Mine DEF IInv
  <2> QED  BY <2>2, <2>3 DEF Phase
<1> QED  BY <1>1, IInvHolds, PTL

=============================================================================
