------------------------------ MODULE Justice ------------------------------
(***************************************************************************)
(* Arrests and releases: homeland security, justice and the scheduler of   *)
(* StateCouncilService.  A suspect is known in three places that no        *)
(* transaction spans: the roles of the Discord server, governance.suspects *)
(* and the in-memory jobs of the auto-release scheduler.  A call is cut at *)
(* its awaits; between two of them the event loop runs nothing else.       *)
(*                                                                         *)
(* Roles are as the server last confirmed them.  Members do not leave, the *)
(* bot is allowed to manage both roles, officers have their permissions.   *)
(* An officer selects one suspect at a time; the scheduler takes many.     *)
(***************************************************************************)
EXTENDS Integers, Sequences, FiniteSets, FiniteSetsExt, SequencesExt

CONSTANTS
    Members,      \* members of the server
    Officers,     \* concurrent users of the panels of security and justice
    MaxOrders,    \* bound: what members press, per kind of order
    MaxTotal,     \* bound: what they press altogether
    MaxFaults     \* bound: failed statements and Discord calls, and restarts

Scheduler == "scheduler"
Procs == Officers \cup {Scheduler}
Orders == {"arrest", "release", "schedule", "charge", "config"}
Roles == {"citizen", "suspect"}
Status == {"detained", "charged", "released"}

ASSUME JusticeAssumption ==
    /\ Scheduler \notin Officers
    /\ IsFiniteSet(Members) /\ IsFiniteSet(Officers)
    /\ MaxOrders \in [Orders -> Nat] /\ MaxTotal \in Nat /\ MaxFaults \in Nat

VARIABLES
    suspect,    \* members with the suspect role
    citizen,    \* members with the citizen role
    rows,       \* rows[m]: the statuses of m's rows of suspects, oldest first
    uuidKeys,   \* suspects.suspect_id is a uuid, as migration 042 has it: the gateway
                \* passes an integer, as the service has it, and no UPDATE finds a row
    settings,   \* the roles whose ids are set in state_council_config
    drafts,     \* commands that have read the settings and have yet to write them
    jobs,       \* jobs[m]: m's auto-release job: "none", "waiting" or "due"
    detached,   \* the dictionary of jobs that the running batch holds was deleted
    at,         \* at[p]: what p is about to do
    todo,       \* todo[p]: members that p's call has yet to finish
    seen,       \* seen[p]: what p read about the first of them
    ready,      \* the members of the scheduler's batch
    made,       \* how many orders of each kind there were, and faults
    clean,      \* members with whom nothing went wrong so far
    roleless    \* members released when there was no citizen role to give them

server == <<suspect, citizen>>
timer == <<jobs, detached, ready>>
control == <<at, todo, seen>>
config == <<settings, drafts, uuidKeys>>
history == <<made, clean, roleless>>
vars == <<server, rows, config, timer, control, history>>

Count(order) ==
    /\ made[order] < MaxOrders[order] /\ MapThenSumSet(LAMBDA o : made[o], Orders) < MaxTotal
    /\ made' = [made EXCEPT ![order] = @ + 1]
Fault ==
    /\ made["fault"] < MaxFaults
    /\ made' = [made EXCEPT !["fault"] = @ + 1]

NothingSeen == [bare |-> FALSE, done |-> FALSE, row |-> 0]
Idle(p) == at[p] = "idle"
Member(p) == Head(todo[p])
BusyWith(m) == {p \in Procs : todo[p] # <<>> /\ Member(p) = m}

\* get_suspect_by_member: the latest row that is not released, or 0.
ActiveRows(m) == {i \in DOMAIN rows[m] : rows[m][i] # "released"}
ActiveRow(m) ==
    IF ActiveRows(m) = {} THEN 0
    ELSE CHOOSE i \in ActiveRows(m) : \A j \in ActiveRows(m) : j <= i

Charged(m) == ActiveRow(m) # 0 /\ rows[m][ActiveRow(m)] = "charged"

\* is_member_charged
IsCharged(m) == Charged(m)

Init ==
    /\ suspect = {} /\ citizen = Members
    /\ rows = [m \in Members |-> <<>>]
    /\ settings = Roles /\ drafts = {} /\ uuidKeys \in BOOLEAN
    /\ jobs = [m \in Members |-> "none"] /\ detached = FALSE /\ ready = {}
    /\ at = [p \in Procs |-> "idle"]
    /\ todo = [p \in Procs |-> <<>>]
    /\ seen = [p \in Procs |-> NothingSeen]
    /\ made = [k \in Orders \cup {"fault"} |-> 0]
    /\ clean = Members /\ roleless = {}

-----------------------------------------------------------------------------
(* Steps of a call *)

Goto(p, step) == at' = [at EXCEPT ![p] = step]

\* A call begins to work on members, with the settings of this moment; two
\* calls on one member spoil it.
Begin(p, ms, step) ==
    /\ Goto(p, step)
    /\ todo' = [todo EXCEPT ![p] = ms]
    /\ seen' = [seen EXCEPT ![p].bare = "citizen" \notin settings]
    /\ clean' = clean \ {m \in Range(ms) : BusyWith(m) # {}}

\* cancel_auto_release: the guild's dictionary goes with its last job.
CancelLeaves(m) == [jobs EXCEPT ![m] = "none"]
Empties(m) == jobs[m] # "none" /\ \A n \in Members \ {m} : jobs[n] = "none"

\* p is done with its first member, whose job is cancelled if cancels.  After
\* the last one the scheduler drops the jobs of its batch from the dictionary
\* it holds, whatever has been scheduled since.
NextMember(p, cancels) ==
    LET m == Member(p)
        last == Tail(todo[p]) = <<>>
        left == IF cancels THEN CancelLeaves(m) ELSE jobs
        gone == detached \/ (cancels /\ Empties(m))
        ends == p = Scheduler /\ last
    IN  /\ Goto(p, IF last THEN "idle" ELSE "check")
        /\ todo' = [todo EXCEPT ![p] = Tail(@)]
        /\ seen' = [seen EXCEPT ![p] = IF last THEN NothingSeen
                                       ELSE [NothingSeen EXCEPT !.bare = seen[p].bare]]
        /\ jobs' = IF ends /\ ~gone
                   THEN [n \in Members |-> IF n \in ready THEN "none" ELSE left[n]]
                   ELSE left
        /\ ready' = IF ends THEN {} ELSE ready
        /\ detached' = (gone /\ ~Idle(Scheduler) /\ ~ends)

\* The members whose jobs the end of the batch drops although they are new.
DroppedBy(p) ==
    IF p = Scheduler /\ Tail(todo[p]) = <<>> /\ ~detached
    THEN {m \in ready \ {Member(p)} : jobs[m] # "none"} ELSE {}

\* Those, and the member that p goes on to if another call is at work on it.
SpoiltBy(p) ==
    DroppedBy(p) \cup
        {m \in Range(Tail(todo[p])) : m = Head(Tail(todo[p])) /\ BusyWith(m) # {}}

-----------------------------------------------------------------------------
(* arrest_user *)

StartArrest(p, m) ==
    /\ Idle(p) /\ p # Scheduler /\ settings = Roles /\ Count("arrest")
    /\ Begin(p, <<m>>, "seize")
    /\ UNCHANGED <<server, rows, config, timer, roleless>>

Seize(p) ==
    /\ at[p] = "seize"
    /\ suspect' = suspect \cup {Member(p)}
    /\ Goto(p, "strip")
    /\ UNCHANGED <<citizen, rows, config, timer, todo, seen, history>>

Strip(p) ==
    /\ at[p] = "strip"
    /\ citizen' = citizen \ {Member(p)}
    /\ Goto(p, "find")
    /\ UNCHANGED <<suspect, rows, config, timer, todo, seen, history>>

EndArrest(p) ==
    /\ Goto(p, "idle")
    /\ todo' = [todo EXCEPT ![p] = <<>>]
    /\ UNCHANGED <<timer, seen>>

\* Mutant of Find: every arrest books a record.
FindNothing(p) ==
    /\ at[p] = "find"
    /\ Goto(p, "book")
    /\ UNCHANGED <<server, rows, config, timer, todo, seen, history>>

\* The identity record, then the look-up of create_suspect_on_arrest.
Find(p) ==
    /\ at[p] = "find"
    /\ IF ActiveRow(Member(p)) # 0
       THEN EndArrest(p)
       ELSE Goto(p, "book") /\ UNCHANGED <<timer, todo, seen>>
    /\ UNCHANGED <<server, rows, config, history>>

Book(p) ==
    /\ at[p] = "book"
    /\ rows' = [rows EXCEPT ![Member(p)] = Append(@, "detained")]
    /\ EndArrest(p)
    /\ UNCHANGED <<server, config, history>>

-----------------------------------------------------------------------------
(* release_suspects, from the security panel, the justice panel or the scheduler *)

StartRelease(p, m) ==
    /\ Idle(p) /\ p # Scheduler /\ "suspect" \in settings /\ Count("release")
    /\ Begin(p, <<m>>, "check")
    /\ UNCHANGED <<server, rows, config, timer, roleless>>

\* handle_release of the justice panel: the row it selected is released first.
JusticeRelease(p, m, i) ==
    /\ Idle(p) /\ p # Scheduler /\ ~uuidKeys /\ Count("release")
    /\ rows[m][i] # "released"
    /\ rows' = [rows EXCEPT ![m][i] = "released"]
    /\ IF "suspect" \in settings
       THEN Begin(p, <<m>>, "check")
       ELSE clean' = clean \ {m} /\ UNCHANGED control
    /\ UNCHANGED <<server, config, timer, roleless>>

\* Mutant of ProcessAutoRelease: without the role the jobs are left for later.
ProcessAutoReleaseLater ==
    LET due == {m \in Members : jobs[m] = "due"}
    IN  /\ Idle(Scheduler) /\ due # {} /\ "suspect" \in settings
        /\ \E ms \in SetToSeqs(due) : Begin(Scheduler, ms, "check")
        /\ ready' = due
        /\ UNCHANGED <<server, rows, config, jobs, detached, made, roleless>>

\* _process_auto_release.  Without the suspect role the batch fails as a
\* whole and its jobs are dropped.
ProcessAutoRelease ==
    LET due == {m \in Members : jobs[m] = "due"}
    IN  /\ Idle(Scheduler) /\ due # {}
        /\ IF "suspect" \in settings
           THEN /\ \E ms \in SetToSeqs(due) : Begin(Scheduler, ms, "check")
                /\ ready' = due /\ UNCHANGED jobs
           ELSE /\ jobs' = [m \in Members |-> IF m \in due THEN "none" ELSE jobs[m]]
                /\ clean' = clean \ due
                /\ UNCHANGED <<control, ready>>
        /\ UNCHANGED <<server, rows, config, detached, made, roleless>>

\* The roles are read right after the answer of the check.  There is nothing
\* to give a citizen, and nothing to give anybody if the call found no citizen
\* role in the settings.
GoOn(p) ==
    LET m == Member(p)
        done == seen[p].bare \/ m \in citizen
    IN  /\ Goto(p, IF m \in suspect THEN "remove" ELSE IF done THEN "look" ELSE "add")
        /\ seen' = [seen EXCEPT ![p].done = done]
        /\ roleless' = IF done /\ m \notin citizen THEN roleless \cup {m} ELSE roleless

\* Mutant of Check: whether a member is charged is left to the panel.
CheckNothing(p) ==
    /\ at[p] = "check"
    /\ GoOn(p)
    /\ UNCHANGED <<server, rows, config, timer, todo, made, clean>>

Check(p) ==
    /\ at[p] = "check"
    /\ IF IsCharged(Member(p))
       THEN NextMember(p, TRUE) /\ clean' = clean \ SpoiltBy(p) /\ UNCHANGED roleless
       ELSE GoOn(p) /\ UNCHANGED <<timer, todo, clean>>
    /\ UNCHANGED <<server, rows, config, made>>

RemoveRole(p) ==
    /\ at[p] = "remove"
    /\ suspect' = suspect \ {Member(p)}
    /\ Goto(p, IF seen[p].done THEN "look" ELSE "add")
    /\ UNCHANGED <<citizen, rows, config, timer, todo, seen, history>>

AddRole(p) ==
    /\ at[p] = "add"
    /\ citizen' = citizen \cup {Member(p)}
    /\ roleless' = roleless \ {Member(p)}
    /\ Goto(p, "look")
    /\ UNCHANGED <<suspect, rows, config, timer, todo, seen, made, clean>>

\* The identity record, then the look-up of mark_member_released_from_security.
Look(p) ==
    LET row == ActiveRow(Member(p))
    IN  /\ at[p] = "look"
        /\ IF row = 0 \/ uuidKeys
           THEN /\ NextMember(p, TRUE)
                /\ clean' = clean \ (SpoiltBy(p) \cup IF row = 0 THEN {} ELSE {Member(p)})
           ELSE /\ Goto(p, "mark")
                /\ seen' = [seen EXCEPT ![p].row = row]
                /\ UNCHANGED <<timer, todo, clean>>
        /\ UNCHANGED <<server, rows, config, made, roleless>>

\* The UPDATE takes a row that is detained or charged; the job is cancelled
\* in either case.
Mark(p) ==
    /\ at[p] = "mark"
    /\ rows' = [rows EXCEPT ![Member(p)][seen[p].row] = "released"]
    /\ NextMember(p, TRUE)
    /\ clean' = clean \ SpoiltBy(p)
    /\ UNCHANGED <<server, config, made, roleless>>

-----------------------------------------------------------------------------
(* Charges, timers and configuration: one statement or one synchronous step *)

\* A charge or its revocation may overtake the check of a call.
Overtake(m) == clean' = IF BusyWith(m) = {} THEN clean ELSE clean \ {m}

\* charge_suspect: the panel may have been loaded long ago.
Charge(m, i) ==
    /\ ~uuidKeys /\ rows[m][i] = "detained" /\ Count("charge")
    /\ rows' = [rows EXCEPT ![m][i] = "charged"]
    /\ Overtake(m)
    /\ UNCHANGED <<server, config, timer, control, roleless>>

RevokeCharge(m, i) ==
    /\ rows[m][i] = "charged" /\ Count("charge")
    /\ rows' = [rows EXCEPT ![m][i] = "detained"]
    /\ Overtake(m)
    /\ UNCHANGED <<server, config, timer, control, roleless>>

\* schedule_auto_release: the role is looked up and the job set without an await.
ScheduleAutoRelease(m) ==
    /\ "suspect" \in settings /\ m \in suspect /\ Count("schedule")
    /\ jobs' = [jobs EXCEPT ![m] = "waiting"]
    /\ UNCHANGED <<server, rows, config, detached, ready, control, clean, roleless>>

TimePasses(m) ==
    /\ jobs[m] = "waiting"
    /\ jobs' = [jobs EXCEPT ![m] = "due"]
    /\ UNCHANGED <<server, rows, config, detached, ready, control, history>>

\* set_config, for a new leader, writes both role ids back to NULL.
SetConfig ==
    /\ settings # {} /\ Count("config")
    /\ settings' = {}
    /\ UNCHANGED <<server, rows, drafts, uuidKeys, timer, control, clean, roleless>>

\* config_citizen_role and config_suspect_role: each reads the settings ...
FetchConfig(role) ==
    /\ Count("config")
    /\ drafts' = drafts \cup {[role |-> role, kept |-> settings]}
    /\ UNCHANGED <<server, rows, settings, uuidKeys, timer, control, clean, roleless>>

\* ... and writes them all, its own role set and the other one as it was read.
UpdateRoleConfig(draft) ==
    /\ settings' = draft.kept \cup {draft.role}
    /\ drafts' = drafts \ {draft}
    /\ UNCHANGED <<server, rows, uuidKeys, timer, control, history>>

-----------------------------------------------------------------------------
(* Failures *)

\* A Discord call or a statement fails.  An arrest ends, unless it was only
\* the citizen role that stayed; a failed check lets the release go on; any
\* other failure ends the release of the member, whose job is cancelled.
FailedCall(p) ==
    /\ Fault
    /\ \/ /\ at[p] = "strip"
          /\ Goto(p, "find")
          /\ UNCHANGED <<timer, todo, seen, roleless>> /\ clean' = clean \ {Member(p)}
       \/ /\ at[p] \in {"seize", "find", "book"}
          /\ EndArrest(p) /\ clean' = clean \ {Member(p)} /\ UNCHANGED roleless
       \/ /\ at[p] = "check"
          /\ GoOn(p)
          /\ UNCHANGED <<timer, todo>> /\ clean' = clean \ {Member(p)}
       \/ /\ at[p] \in {"remove", "add", "look", "mark"}
          /\ NextMember(p, TRUE)
          /\ clean' = clean \ ({Member(p)} \cup SpoiltBy(p)) /\ UNCHANGED roleless
    /\ UNCHANGED <<server, rows, config>>

\* The bot restarts: calls are cut off and all jobs are lost.
Restart ==
    /\ Fault
    /\ at' = [p \in Procs |-> "idle"]
    /\ todo' = [p \in Procs |-> <<>>]
    /\ seen' = [p \in Procs |-> NothingSeen]
    /\ jobs' = [m \in Members |-> "none"] /\ detached' = FALSE /\ ready' = {}
    /\ clean' = {m \in clean : jobs[m] = "none" /\ \A p \in Procs : m \notin Range(todo[p])}
    /\ drafts' = {}
    /\ UNCHANGED <<server, rows, settings, uuidKeys, roleless>>

arrest_user(p) == Seize(p) \/ Strip(p) \/ Find(p) \/ Book(p)
release_suspects(p) == Check(p) \/ RemoveRole(p) \/ AddRole(p) \/ Look(p) \/ Mark(p)
Step(p) == arrest_user(p) \/ release_suspects(p)

Next ==
    \/ \E p \in Procs : Step(p) \/ FailedCall(p)
    \/ ProcessAutoRelease \/ SetConfig \/ Restart
    \/ \E role \in Roles : FetchConfig(role)
    \/ \E draft \in drafts : UpdateRoleConfig(draft)
    \/ \E m \in Members :
          \/ \E p \in Officers : StartArrest(p, m) \/ StartRelease(p, m)
          \/ ScheduleAutoRelease(m) \/ TimePasses(m)
          \/ \E i \in DOMAIN rows[m] :
                \/ Charge(m, i) \/ RevokeCharge(m, i)
                \/ \E p \in Officers : JusticeRelease(p, m, i)

Spec == Init /\ [][Next]_vars

\* Awaited calls return, time passes and the scheduler's loop goes round;
\* nobody has to press a button and nothing has to fail.
Fairness ==
    /\ \A p \in Procs : WF_vars(Step(p))
    /\ \A m \in Members : WF_vars(TimePasses(m))
    /\ WF_vars(ProcessAutoRelease)
FairSpec == Spec /\ Fairness

-----------------------------------------------------------------------------
(* Properties *)

\* Types; a call that works on nobody is idle.
TypeOK ==
    /\ suspect \subseteq Members /\ citizen \subseteq Members
    /\ rows \in [Members -> Seq(Status)] /\ settings \subseteq Roles
    /\ drafts \subseteq [role: Roles, kept: SUBSET Roles] /\ uuidKeys \in BOOLEAN
    /\ jobs \in [Members -> {"none", "waiting", "due"}] /\ detached \in BOOLEAN
    /\ at \in [Procs -> {"idle", "seize", "strip", "find", "book",
                         "check", "remove", "add", "look", "mark"}]
    /\ \A p \in Procs : todo[p] \in Seq(Members) /\ (Idle(p) <=> todo[p] = <<>>)
    /\ \A p \in Procs : seen[p] \in [bare: BOOLEAN, done: BOOLEAN, row: Nat]
    /\ ready \subseteq Members /\ clean \subseteq Members /\ roleless \subseteq Members

\* Roles, records and each other: when nobody works on a member with whom
\* nothing went wrong, exactly the suspects have one open record, no suspect is
\* a citizen, and whoever is neither was released when no citizen role was set
\* and has not been given it since.
RolesMatchRecords ==
    \A m \in clean :
        BusyWith(m) = {} =>
            /\ Cardinality(ActiveRows(m)) = (IF m \in suspect THEN 1 ELSE 0)
            /\ m \in suspect => m \notin citizen
            /\ m \in suspect \cup citizen \cup roleless

\* A job is never left behind for a member who is free: whoever takes the
\* role away cancels the job before the call ends.
NoJobForTheFree ==
    \A m \in Members :
        jobs[m] # "none" =>
            \/ m \in suspect
            \/ \E p \in BusyWith(m) : at[p] \in {"add", "look", "mark"}

\* Types, and roles, records and jobs agree, whoever acts on a member next.
StateIsCoherent == TypeOK /\ RolesMatchRecords /\ NoJobForTheFree

\* Security and the scheduler do not release whom justice has charged, unless
\* the check failed, the charge came after it, or two arrests left two records.
ChargedAreKept ==
    \A p \in Procs :
        at[p] \in {"remove", "add", "look", "mark"} =>
            ~Charged(Member(p)) \/ Member(p) \notin clean

\* A suspect whose release is scheduled gets free, is charged, or something
\* went wrong with one of the calls about him.
ScheduledGetFree ==
    \A m \in Members :
        jobs[m] # "none" ~> m \notin suspect \/ m \notin clean \/ Charged(m)

=============================================================================
