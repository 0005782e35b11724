------------------------- MODULE TaskPipelineProofs -------------------------
(***************************************************************************)
(* The safety properties of TaskPipeline, for any requests, pods, formats  *)
(* and bounds.                                                             *)
(***************************************************************************)
EXTENDS TaskPipeline, EnqueueApiProofs, FiniteSetTheorems

LEMMA FormatsKnown == SetPayloadFormat(Settings) \subseteq Formats
  BY DEF SetPayloadFormat

LEMMA TasksDiffer == \A r \in Requests, b \in Batches : r # b
  BY PipelineAssumption

LEMMA JobFields ==
  ASSUME NEW j \in Jobs
  PROVE  /\ j.payload \in Payloads /\ j.payload.content \in Contents
         /\ j.queue \in Queues /\ j.retry \in Nat /\ j.unique \in BOOLEAN
         /\ j # NoJob
<1>1. j # NoJob BY PipelineAssumption
<1>2. QED BY <1>1 DEF Jobs, Payloads

LEMMA Extends ==
  ASSUME NEW X \in SUBSET Texts, NEW g \in [X -> Int], NEW N,
         N = [m \in Texts |-> IF m \in X THEN g[m] ELSE 0]
  PROVE  N \in [Texts -> Int] /\ \A m \in X : N[m] = g[m]
<1>1. \A m \in Texts : (IF m \in X THEN g[m] ELSE 0) \in Int
  <2> TAKE m \in Texts
  <2>1. CASE m \in X BY <2>1
  <2>2. CASE m \notin X BY <2>2
  <2>3. QED BY <2>1, <2>2
<1>2. N \in [Texts -> Int] BY <1>1
<1>3. \A m \in X : N[m] = g[m] OBVIOUS
<1>4. QED BY <1>2, <1>3

-----------------------------------------------------------------------------
(* Types.                                                                  *)

\* TypeOK, with job a function.
PipeType ==
    /\ format \in [Pods -> SetPayloadFormat(Settings)]
    /\ state \in [Tasks -> States]
    /\ job \in [Tasks -> Jobs \cup {NoJob}]
    /\ left \in [Tasks -> Nat]
    /\ taken \in [Pods -> SUBSET Requests]
    /\ step \in [Pods -> {"idle", "read", "sent"}]
    /\ \A p \in Pods : (step[p] = "idle") <=> (taken[p] = {})
    /\ stale \subseteq SUBSET Requests
    /\ from \in [Batches -> SUBSET Requests]
    /\ locked \subseteq Tasks /\ lapsed \subseteq Tasks /\ again \subseteq Requests
    /\ seen \subseteq Formats
    /\ budget \in 0 .. MaxFaults

\* What has a job was enqueued, and what waits in a group has a group.
Known ==
    \A t \in Tasks :
        /\ job[t] = NoJob <=> state[t] \in {"new", "refused", "duplicate"}
        /\ state[t] \in {"grouped", "taken", "gone"} => t \in Requests /\ job[t].group # NoGroup
        /\ t \in Batches /\ job[t] # NoJob => job[t].group = NoGroup

\* A task that was read from its group is in one aggregation set.
Owned ==
    /\ \A p \in Pods : \A r \in taken[p] : state[r] = "taken"
    /\ \A S \in stale : \A r \in S : state[r] = "taken"
    /\ \A p, q \in Pods : p # q => taken[p] \cap taken[q] = {}
    /\ \A p \in Pods, S \in stale : taken[p] \cap S = {}
    /\ \A S, T \in stale : S # T => S \cap T = {}

\* The batch of a set of enqueued members: what it says is what the members it could decode
\* say.
LEMMA BatchMembers ==
  ASSUME PipeType, NEW S \in SUBSET Requests, NEW f \in Formats, S # {},
         \A r \in S : job[r] # NoJob
  PROVE  /\ BatchJob(S, f) \in Jobs
         /\ BatchJob(S, f).group = NoGroup
         /\ BatchJob(S, f).type = "notification:batch"
         /\ Readable(f, BatchJob(S, f).payload)
         /\ LET c == BatchJob(S, f).payload.content
            IN  /\ c.numbered = c.texts
                /\ \A r \in S : Readable(f, job[r].payload)
                                    => job[r].payload.content.texts \subseteq c.texts
                /\ \A m \in c.texts : \E r \in S :
                      /\ m \in job[r].payload.content.texts
                      /\ Fits(job[r].payload.content.num[m])
                            => c.num[m] = job[r].payload.content.num[m]
<1> DEFINE D == Decoded(S, f)
           c == BatchContent(S, f)
           C(r) == job[r].payload.content
<1>1. \A r \in S : job[r] \in Jobs /\ C(r) \in Contents
  <2>1. \A r \in S : job[r] \in Jobs BY DEF PipeType, Tasks
  <2>2. QED BY <2>1, JobFields
<1>2. D \subseteq S BY DEF Decoded
<1>3. TextsOf(D) \subseteq Texts BY <1>1, <1>2 DEF TextsOf, Contents
<1>4. ASSUME NEW m \in TextsOf(D)
      PROVE  \E r \in D : m \in C(r).texts /\ NumberIn(D, m) = C(r).num[m]
                          /\ NumberIn(D, m) \in Int
  <2>1. \E r \in D : m \in C(r).texts BY <1>4 DEF TextsOf
  <2>2. PICK r \in D : m \in C(r).texts /\ NumberIn(D, m) = C(r).num[m]
    BY <2>1 DEF NumberIn
  <2>3. C(r).num[m] \in Int BY <1>1, <1>2, <1>3, <1>4 DEF Contents
  <2>4. QED BY <2>2, <2>3
<1>5. Cardinality(S) \in Int
  BY FS_Subset, FS_CardinalityType, PipelineAssumption
<1>6. c \in Contents /\ c.texts = TextsOf(D) /\ c.numbered = TextsOf(D)
      /\ \A m \in TextsOf(D) : c.num[m] = NumberIn(D, m)
  <2>1. c = [texts |-> TextsOf(D), numbered |-> TextsOf(D),
             num |-> [m \in Texts |-> IF m \in TextsOf(D) THEN NumberIn(D, m) ELSE 0],
             count |-> Cardinality(S)]
    BY DEF BatchContent, Lines, NumbersOf
  <2> HIDE DEF c, D
  <2>2. \A m \in TextsOf(D) : NumberIn(D, m) \in Int BY <1>4
  <2> DEFINE X == TextsOf(D)
             g == [m \in X |-> NumberIn(D, m)]
             N == [m \in Texts |-> IF m \in X THEN NumberIn(D, m) ELSE 0]
             k == Cardinality(S)
  <2>3. N \in [Texts -> Int] /\ \A m \in X : N[m] = NumberIn(D, m)
    <3>1. g \in [X -> Int] /\ X \in SUBSET Texts BY <1>3, <2>2
    <3>2. N = [m \in Texts |-> IF m \in X THEN g[m] ELSE 0] OBVIOUS
    <3>3. \A m \in X : g[m] = NumberIn(D, m) OBVIOUS
    <3> HIDE DEF X, g, N
    <3>4. N \in [Texts -> Int] /\ \A m \in X : N[m] = g[m] BY <3>1, <3>2, Extends, Zenon
    <3>5. QED BY <3>3, <3>4
  <2>4. X \subseteq Texts /\ k \in Int BY <1>3, <1>5
  <2>5. c = [texts |-> X, numbered |-> X, num |-> N, count |-> k] BY <2>1
  <2> HIDE DEF X, N, k
  <2>6. c \in Contents /\ c.texts = X /\ c.numbered = X /\ c.num = N
    BY <2>4, <2>3, <2>5 DEF Contents
  <2>7. QED BY <2>3, <2>6 DEF X
<1> HIDE DEF c, D
<1>7. /\ Marshal(f, c) \in Payloads
      /\ Marshal(f, c).content.texts = c.texts
      /\ Marshal(f, c).content.numbered = c.numbered
      /\ \A m \in Texts : Fits(c.num[m]) => Marshal(f, c).content.num[m] = c.num[m]
      /\ Readable(f, Marshal(f, c))
  BY <1>6, MarshalType, MarshalReadable
<1>8. PICK r \in S : r = CHOOSE s \in S : TRUE OBVIOUS
<1>9. job[r].queue \in Queues /\ Plain.retry \in Nat
  BY <1>1, JobFields, ApiAssumption DEF Plain
<1>10. BatchJob(S, f) =
          [type |-> "notification:batch", payload |-> Marshal(f, c), queue |-> job[r].queue,
           delayed |-> FALSE, retry |-> Plain.retry, unique |-> FALSE, group |-> NoGroup]
  BY <1>8 DEF BatchJob, c
<1>11. BatchJob(S, f) \in Jobs
  BY <1>7, <1>9, <1>10 DEF Jobs, Types
<1>12. /\ BatchJob(S, f).payload = Marshal(f, c) /\ BatchJob(S, f).group = NoGroup
       /\ BatchJob(S, f).type = "notification:batch"
  BY <1>10
<1>13. Marshal(f, c).content.numbered = Marshal(f, c).content.texts BY <1>6, <1>7
<1>14. \A s \in S : Readable(f, job[s].payload) => C(s).texts \subseteq c.texts
  BY <1>6 DEF D, Decoded, TextsOf
<1>15. \A m \in c.texts : \E s \in S :
          /\ m \in C(s).texts
          /\ Fits(C(s).num[m]) => Marshal(f, c).content.num[m] = C(s).num[m]
  BY <1>2, <1>3, <1>4, <1>6, <1>7
<1>16. QED BY <1>7, <1>11, <1>12, <1>13, <1>14, <1>15

\* The three outcomes of a request.
Accepted(r, f) ==
    /\ ~Refused(Req[r])
    /\ Build(Req[r], f).unique => ~Held(Build(Req[r], f))
    /\ Accept(r, Build(Req[r], f), f)

LEMMA EnqueueCases ==
  ASSUME PipeType, NEW r \in Requests, Enqueue(r)
  PROVE  /\ state[r] = "new"
         /\ \/ \E why \in {"refused", "duplicate"} : Reject(r, why)
            \/ \E f \in Formats : Accepted(r, f)
<1>1. WrittenBy(Req[r]) \subseteq Formats
  BY FormatsKnown DEF WrittenBy, PipeType
<1>2. QED BY <1>1 DEF Enqueue, Accepted

LEMMA BuiltType ==
  ASSUME NEW r \in Requests, NEW f \in Formats, ~Refused(Req[r])
  PROVE  Build(Req[r], f) \in Jobs /\ Build(Req[r], f).retry \in Nat
<1>1. Req[r] \in RequestType BY PipelineAssumption
<1>2. QED BY <1>1, BuildType, JobFields

LEMMA InitType == Init => PipeType /\ Known /\ Owned
<1> SUFFICES ASSUME Init PROVE PipeType /\ Known /\ Owned OBVIOUS
<1>1. seen \subseteq Formats BY FormatsKnown DEF Init
<1>2. MaxFaults \in Nat BY PipelineAssumption
<1>3. PipeType BY <1>1, <1>2 DEF Init, PipeType, States
<1>4. Known BY DEF Init, Known
<1>5. Owned BY DEF Init, Owned
<1>6. QED BY <1>3, <1>4, <1>5

LEMMA TypeInductive ==
  ASSUME PipeType, Known, Owned, [Next]_vars
  PROVE  PipeType' /\ Known'
<1> USE DEF Tasks
<1>1. ASSUME NEW r \in Requests, Enqueue(r) PROVE PipeType' /\ Known'
  <2>1. state[r] = "new" BY <1>1, EnqueueCases
  <2>2. CASE \E why \in {"refused", "duplicate"} : Reject(r, why)
    BY <2>1, <2>2 DEF PipeType, Known, Reject, SetState, States, Waiting, Final, groupVars, ghosts
  <2>3. ASSUME NEW f \in Formats, Accepted(r, f) PROVE PipeType' /\ Known'
    <3> DEFINE j == Build(Req[r], f)
    <3>1. j \in Jobs /\ j.retry \in Nat /\ j # NoJob BY <2>3, BuiltType, JobFields DEF Accepted
    <3>2. Accept(r, j, f) BY <2>3 DEF Accepted
    <3> HIDE DEF j
    <3>3. PipeType'
      BY <3>1, <3>2 DEF PipeType, Accept, SetState, Ready, States, Waiting, Final, groupVars,
         ghosts
    <3>4. r \notin Batches BY TasksDiffer
    <3>5. Known'
      BY <2>1, <3>1, <3>2, <3>4 DEF PipeType, Known, Accept, SetState, Ready
    <3>6. QED BY <3>3, <3>5
  <2>4. QED BY <1>1, <2>2, <2>3, EnqueueCases
<1>2. ASSUME NEW t \in Tasks, Forward(t) PROVE PipeType' /\ Known'
  BY <1>2 DEF PipeType, Known, Forward, SetState, Ready, States, Waiting, Final, groupVars, ghosts
<1>3. ASSUME NEW t \in Tasks, LockExpires(t) PROVE PipeType' /\ Known'
  BY <1>3, PipelineAssumption DEF PipeType, Known, LockExpires, Fault, groupVars
<1>4. ASSUME NEW t \in Tasks, NEW p \in Pods, Handle(p, t) PROVE PipeType' /\ Known'
  <2>1. /\ state' \in {[state EXCEPT ![t] = s] : s \in {"done", "archived", "retry"}}
        /\ locked' \subseteq Tasks /\ left' \in [Tasks -> Nat]
    BY <1>4 DEF Handle, Fail, SetState, PipeType
  <2>2. state[t] = "pending" /\ UNCHANGED <<format, job, groupVars, ghosts, seen, budget>>
    BY <1>4 DEF Handle
  <2>3. PipeType' BY <2>1, <2>2 DEF PipeType, States, Waiting, Final, groupVars, ghosts
  <2>4. Known' BY <2>1, <2>2 DEF PipeType, Known
  <2>5. QED BY <2>3, <2>4
<1>5. ASSUME NEW p \in Pods, NEW r \in Requests, ReadGroup(p, r) PROVE PipeType' /\ Known'
  <2>1. PICK S \in SUBSET Group(r) :
          /\ r \in S
          /\ state' = [t \in Tasks |-> IF t \in S THEN "taken" ELSE state[t]]
          /\ taken' = [taken EXCEPT ![p] = S]
    BY <1>5 DEF ReadGroup
  <2>2. \A s \in S : s \in Requests /\ state[s] = "grouped" BY DEF Group
  <2>3. /\ step' = [step EXCEPT ![p] = "read"]
        /\ UNCHANGED <<format, job, left, stale, ghosts, locked, seen, budget>>
    BY <1>5 DEF ReadGroup
  <2>4. PipeType'
    BY <2>1, <2>2, <2>3 DEF PipeType, States, Waiting, Final, ghosts
  <2>5. Known' BY <2>1, <2>2, <2>3 DEF PipeType, Known
  <2>6. QED BY <2>4, <2>5
<1>6. ASSUME NEW p \in Pods, NEW b \in Batches, SendBatch(p, b) PROVE PipeType' /\ Known'
  <2>1. BatchJob(taken[p], format[p]) \in Jobs
        /\ BatchJob(taken[p], format[p]).group = NoGroup
    <3>1. taken[p] \in SUBSET Requests /\ format[p] \in Formats /\ taken[p] # {}
      BY <1>6, FormatsKnown DEF SendBatch, PipeType
    <3>2. \A r \in taken[p] : job[r] # NoJob BY DEF Known, Owned, PipeType
    <3>3. QED BY <3>1, <3>2, BatchMembers
  <2> DEFINE j == BatchJob(taken[p], format[p])
  <2>2. /\ state' = [state EXCEPT ![b] = "pending"] /\ job' = [job EXCEPT ![b] = j]
        /\ left' = [left EXCEPT ![b] = Plain.retry] /\ from' = [from EXCEPT ![b] = taken[p]]
        /\ step' = [step EXCEPT ![p] = "sent"] /\ state[b] = "new" /\ step[p] = "read"
        /\ UNCHANGED <<format, taken, stale, lapsed, again, locked, seen, budget>>
    BY <1>6 DEF SendBatch, SetState
  <2>3. j \in Jobs /\ j.group = NoGroup /\ j # NoJob /\ Plain.retry \in Nat
    BY <2>1, JobFields, ApiAssumption DEF Plain
  <2> HIDE DEF j
  <2>4. PipeType' BY <2>2, <2>3 DEF PipeType, States, Waiting, Final
  <2>5. Known' BY <2>2, <2>3 DEF PipeType, Known
  <2>6. QED BY <2>4, <2>5
<1>7. ASSUME NEW p \in Pods, DeleteSet(p) PROVE PipeType' /\ Known'
  <2>1. \A r \in taken[p] : r \in Requests /\ state[r] = "taken" BY DEF Owned, PipeType
  <2>2. PipeType'
    BY <1>7, <2>1 DEF PipeType, DeleteSet, States, Waiting, Final, ghosts
  <2>3. Known' BY <1>7, <2>1 DEF PipeType, Known, DeleteSet, ghosts
  <2>4. QED BY <2>2, <2>3
<1>8. ASSUME NEW p \in Pods, LeaveSet(p), Fault, UNCHANGED <<state, job, left, from, lapsed, locked>>,
             format' \in [Pods -> SetPayloadFormat(Settings)], seen' \subseteq Formats
      PROVE  PipeType' /\ Known'
  <2>1. PipeType' BY <1>8, PipelineAssumption DEF PipeType, LeaveSet, Fault
  <2>2. Known' BY <1>8 DEF Known
  <2>3. QED BY <2>1, <2>2
<1>9. ASSUME NEW p \in Pods, Abandon(p) PROVE PipeType' /\ Known'
  BY <1>8, <1>9 DEF Abandon, PipeType
<1>10. ASSUME NEW p \in Pods, Restart(p) PROVE PipeType' /\ Known'
  <2>1. PICK f \in SetPayloadFormat(Settings) :
          format' = [format EXCEPT ![p] = f] /\ seen' = seen \cup {f}
    BY <1>10 DEF Restart
  <2>2. format' \in [Pods -> SetPayloadFormat(Settings)] /\ seen' \subseteq Formats
    BY <2>1, FormatsKnown DEF PipeType
  <2>3. QED BY <1>8, <1>10, <2>2 DEF Restart
<1>11. ASSUME NEW S \in stale, Reclaim(S) PROVE PipeType' /\ Known'
  <2>1. \A r \in S : r \in Requests /\ state[r] = "taken" BY DEF Owned, PipeType
  <2>2. PipeType'
    BY <1>11, <2>1 DEF PipeType, Reclaim, States, Waiting, Final, ghosts
  <2>3. Known' BY <1>11, <2>1 DEF PipeType, Known, Reclaim, ghosts
  <2>4. QED BY <2>2, <2>3
<1>12. CASE UNCHANGED vars
  BY <1>12 DEF vars, groupVars, ghosts, PipeType, Known
<1>13. QED
  BY <1>1, <1>2, <1>3, <1>4, <1>5, <1>6, <1>7, <1>9, <1>10, <1>11, <1>12
     DEF Next, TaskStep, GroupStep

-----------------------------------------------------------------------------
(* Aggregation sets.                                                       *)

\* A step that leaves the sets and the tasks in them alone.
GroupQuiet ==
    /\ UNCHANGED <<taken, step, stale, from, again>>
    /\ \A t \in Tasks : state'[t] = state[t]
                          \/ {state[t], state'[t]} \cap {"taken", "gone"} = {}

LEMMA GroupCases ==
  ASSUME PipeType, Known, [Next]_vars
  PROVE  \/ GroupQuiet
         \/ \E p \in Pods, r \in Requests : ReadGroup(p, r)
         \/ \E p \in Pods, b \in Batches : SendBatch(p, b)
         \/ \E p \in Pods : DeleteSet(p)
         \/ \E p \in Pods : LeaveSet(p) /\ UNCHANGED <<state, job, from>>
         \/ \E S \in stale : Reclaim(S)
<1> USE DEF Tasks
<1>1. ASSUME NEW r \in Requests, Enqueue(r) PROVE GroupQuiet
  <2>1. state[r] = "new" BY <1>1, EnqueueCases
  <2>2. CASE \E why \in {"refused", "duplicate"} : Reject(r, why)
    BY <2>1, <2>2 DEF PipeType, Reject, SetState, groupVars, ghosts, GroupQuiet
  <2>3. ASSUME NEW f \in Formats, Accepted(r, f) PROVE GroupQuiet
    BY <2>1, <2>3 DEF PipeType, Accepted, Accept, SetState, Ready, groupVars, ghosts, GroupQuiet
  <2>4. QED BY <1>1, <2>2, <2>3, EnqueueCases
<1>2. ASSUME NEW t \in Tasks, Forward(t) PROVE GroupQuiet
  BY <1>2 DEF PipeType, Forward, SetState, Ready, groupVars, ghosts, GroupQuiet
<1>3. ASSUME NEW t \in Tasks, LockExpires(t) PROVE GroupQuiet
  BY <1>3 DEF PipeType, LockExpires, groupVars, GroupQuiet
<1>4. ASSUME NEW t \in Tasks, NEW p \in Pods, Handle(p, t) PROVE GroupQuiet
  BY <1>4 DEF PipeType, Handle, Fail, SetState, groupVars, ghosts, GroupQuiet
<1>5. CASE UNCHANGED vars BY <1>5 DEF vars, groupVars, ghosts, GroupQuiet
<1>6. QED
  BY <1>1, <1>2, <1>3, <1>4, <1>5
     DEF Next, TaskStep, GroupStep, Abandon, Restart

LEMMA OwnedInductive ==
  ASSUME PipeType, Known, Owned, [Next]_vars
  PROVE  Owned'
<1> USE DEF Tasks, Owned
<1>1. CASE GroupQuiet
  <2>1. \A t \in Tasks : state[t] = "taken" => state'[t] = "taken" BY <1>1 DEF GroupQuiet
  <2>2. \A p \in Pods : taken[p] \subseteq Tasks BY DEF PipeType
  <2>3. \A S \in stale : S \subseteq Tasks BY DEF PipeType
  <2>4. UNCHANGED <<taken, stale>> BY <1>1 DEF GroupQuiet
  <2>5. QED BY <2>1, <2>2, <2>3, <2>4
<1>2. ASSUME NEW p \in Pods, NEW r \in Requests, ReadGroup(p, r) PROVE Owned'
  <2>1. PICK S \in SUBSET Group(r) :
          /\ state' = [t \in Tasks |-> IF t \in S THEN "taken" ELSE state[t]]
          /\ taken' = [taken EXCEPT ![p] = S]
    BY <1>2 DEF ReadGroup
  <2>2. \A s \in S : s \in Requests /\ state[s] = "grouped" BY DEF Group
  <2>3. UNCHANGED stale BY <1>2 DEF ReadGroup
  <2>4. \A q \in Pods : taken[q] \cap S = {} BY <2>2
  <2>5. \A T \in stale : T \cap S = {} BY <2>2
  <2>6. \A q \in Pods : taken'[q] = IF q = p THEN S ELSE taken[q]
    BY <2>1 DEF PipeType
  <2>7. \A t \in Tasks : state[t] = "taken" \/ t \in S => state'[t] = "taken"
    BY <2>1
  <2>8. \A q \in Pods : taken[q] \subseteq Tasks BY DEF PipeType
  <2>9. \A T \in stale : T \subseteq Tasks BY DEF PipeType
  <2>10. QED BY <2>2, <2>3, <2>4, <2>5, <2>6, <2>7, <2>8, <2>9
<1>3. ASSUME NEW p \in Pods, NEW b \in Batches, SendBatch(p, b) PROVE Owned'
  <2>1. state' = [state EXCEPT ![b] = "pending"] /\ UNCHANGED <<taken, stale>>
    BY <1>3 DEF SendBatch, SetState
  <2>2. b \notin Requests BY TasksDiffer
  <2>3. QED BY <2>1, <2>2 DEF PipeType
<1>4. ASSUME NEW p \in Pods, DeleteSet(p) PROVE Owned'
  <2>1. /\ state' = [t \in Tasks |-> IF t \in taken[p] THEN "gone" ELSE state[t]]
        /\ taken' = [taken EXCEPT ![p] = {}] /\ UNCHANGED stale
    BY <1>4 DEF DeleteSet
  <2>2. QED BY <2>1 DEF PipeType
<1>5. ASSUME NEW p \in Pods, LeaveSet(p), UNCHANGED <<state, job, from>> PROVE Owned'
  <2>1. CASE taken[p] = {} BY <1>5, <2>1 DEF LeaveSet, PipeType
  <2>2. CASE taken[p] # {}
    <3>1. taken' = [taken EXCEPT ![p] = {}] /\ stale' = stale \cup {taken[p]}
      BY <1>5, <2>2 DEF LeaveSet
    <3>2. QED BY <1>5, <3>1 DEF PipeType
  <2>3. QED BY <2>1, <2>2
<1>6. ASSUME NEW S \in stale, Reclaim(S) PROVE Owned'
  <2>1. /\ state' = [t \in Tasks |-> IF t \in S THEN "grouped" ELSE state[t]]
        /\ stale' = stale \ {S} /\ UNCHANGED taken
    BY <1>6 DEF Reclaim
  <2>2. QED BY <2>1 DEF PipeType
<1>7. QED BY <1>1, <1>2, <1>3, <1>4, <1>5, <1>6, GroupCases

\* A task that was read from its group is in no fewer sets than one.
InSet(r) == (\E p \in Pods : r \in taken[p]) \/ (\E S \in stale : r \in S)
Unstranded == \A r \in Requests : state[r] = "taken" => InSet(r)

LEMMA UnstrandedInductive ==
  ASSUME PipeType, Known, Owned, Unstranded, [Next]_vars
  PROVE  Unstranded'
<1> USE DEF Tasks
\* Enough for the steps that read no group.
<1>1. ASSUME \A r \in Requests : state'[r] = "taken" =>
                  state[r] = "taken" /\ (InSet(r) => InSet(r)')
      PROVE  Unstranded'
  BY <1>1 DEF Unstranded
<1>2. CASE GroupQuiet BY <1>1, <1>2 DEF GroupQuiet, InSet
<1>3. ASSUME NEW p \in Pods, NEW r \in Requests, ReadGroup(p, r) PROVE Unstranded'
  <2>1. PICK S \in SUBSET Group(r) :
          /\ state' = [t \in Tasks |-> IF t \in S THEN "taken" ELSE state[t]]
          /\ taken' = [taken EXCEPT ![p] = S]
    BY <1>3 DEF ReadGroup
  <2>2. taken[p] = {} /\ UNCHANGED stale BY <1>3 DEF ReadGroup, PipeType
  <2>3. \A q \in Pods : taken'[q] = IF q = p THEN S ELSE taken[q]
    BY <2>1 DEF PipeType
  <2>4. ASSUME NEW s \in Requests, state'[s] = "taken" PROVE InSet(s)'
    <3>1. CASE s \in S BY <2>3, <3>1 DEF InSet
    <3>2. CASE s \notin S
      <4>1. InSet(s) BY <2>1, <2>4, <3>2 DEF Unstranded
      <4>2. QED BY <2>2, <2>3, <4>1 DEF InSet
    <3>3. QED BY <3>1, <3>2
  <2>5. QED BY <2>4 DEF Unstranded
<1>4. ASSUME NEW p \in Pods, NEW b \in Batches, SendBatch(p, b) PROVE Unstranded'
  BY <1>1, <1>4, TasksDiffer DEF SendBatch, SetState, PipeType, InSet
<1>5. ASSUME NEW p \in Pods, DeleteSet(p) PROVE Unstranded'
  <2>1. /\ state' = [t \in Tasks |-> IF t \in taken[p] THEN "gone" ELSE state[t]]
        /\ \A q \in Pods : taken'[q] = IF q = p THEN {} ELSE taken[q]
        /\ UNCHANGED stale
    BY <1>5 DEF DeleteSet, PipeType
  <2>2. QED BY <1>1, <2>1 DEF InSet
<1>6. ASSUME NEW p \in Pods, LeaveSet(p), UNCHANGED <<state, job, from>> PROVE Unstranded'
  <2>1. /\ \A q \in Pods : taken'[q] = IF q = p THEN {} ELSE taken[q]
        /\ stale \subseteq stale'
        /\ taken[p] # {} => taken[p] \in stale'
    BY <1>6 DEF LeaveSet, PipeType
  <2>2. ASSUME NEW r \in Requests, InSet(r) PROVE InSet(r)'
    <3>1. CASE r \in taken[p] BY <2>1, <3>1 DEF InSet
    <3>2. CASE r \notin taken[p] BY <2>1, <2>2, <3>2 DEF InSet
    <3>3. QED BY <3>1, <3>2
  <2>3. QED BY <1>1, <1>6, <2>2
<1>7. ASSUME NEW S \in stale, Reclaim(S) PROVE Unstranded'
  <2>1. /\ state' = [t \in Tasks |-> IF t \in S THEN "grouped" ELSE state[t]]
        /\ UNCHANGED taken /\ stale' = stale \ {S}
    BY <1>7 DEF Reclaim
  <2>2. QED BY <1>1, <2>1 DEF InSet
<1>8. QED BY <1>2, <1>3, <1>4, <1>5, <1>6, <1>7, GroupCases

\* Deleted, or in a set whose batch was enqueued.
Settled(r) == state[r] = "gone" \/ \E p \in Pods : step[p] = "sent" /\ r \in taken[p]

LEMMA OnceInductive ==
  ASSUME PipeType, Known, Owned, OnceUnlessLeft, [Next]_vars
  PROVE  OnceUnlessLeft'
<1> USE DEF Tasks
<1>0. ASSUME NEW r \in Requests \ again, NEW b \in Batches, r \in from[b]
      PROVE  Settled(r) /\ \A c \in Batches : r \in from[c] => c = b
  BY <1>0 DEF OnceUnlessLeft, Settled
\* Enough for the steps that make no batch.
<1>1. ASSUME UNCHANGED from, again \subseteq again',
             \A r \in Requests \ again' : Settled(r) => Settled(r)'
      PROVE  OnceUnlessLeft'
  <2> SUFFICES ASSUME NEW r \in Requests \ again', NEW b \in Batches, r \in from[b]
               PROVE  Settled(r)' /\ \A c \in Batches : r \in from[c] => c = b
    BY <1>1 DEF OnceUnlessLeft, Settled
  <2>1. QED BY <1>0, <1>1
<1>2. CASE GroupQuiet BY <1>1, <1>2 DEF GroupQuiet, PipeType, Settled
<1>3. ASSUME NEW p \in Pods, NEW r \in Requests, ReadGroup(p, r) PROVE OnceUnlessLeft'
  <2>1. PICK S \in SUBSET Group(r) :
          /\ state' = [t \in Tasks |-> IF t \in S THEN "taken" ELSE state[t]]
          /\ taken' = [taken EXCEPT ![p] = S]
    BY <1>3 DEF ReadGroup
  <2>2. \A s \in S : state[s] = "grouped" BY DEF Group
  <2>3. step[p] = "idle" /\ step' = [step EXCEPT ![p] = "read"] /\ UNCHANGED <<from, again>>
    BY <1>3 DEF ReadGroup, ghosts
  <2>4. \A s \in Requests : state[s] = "gone" => state'[s] = "gone" BY <2>1, <2>2
  <2>5. \A s \in Requests : Settled(s) => Settled(s)'
    BY <2>1, <2>3, <2>4 DEF PipeType, Settled
  <2>6. QED BY <1>1, <2>3, <2>5
<1>4. ASSUME NEW p \in Pods, NEW b \in Batches, SendBatch(p, b) PROVE OnceUnlessLeft'
  <2>1. /\ state' = [state EXCEPT ![b] = "pending"] /\ from' = [from EXCEPT ![b] = taken[p]]
        /\ step' = [step EXCEPT ![p] = "sent"] /\ step[p] = "read" /\ UNCHANGED <<taken, again>>
    BY <1>4 DEF SendBatch, SetState
  <2>2. \A r \in Requests : Settled(r) => Settled(r)'
    <3>1. b \notin Requests BY TasksDiffer
    <3>2. QED BY <2>1, <3>1 DEF PipeType, Settled
  <2>3. \A r \in taken[p] : Settled(r)' BY <2>1 DEF PipeType, Settled
  <2>4. \A r \in taken[p] : ~Settled(r)
    BY <2>1 DEF PipeType, Owned, Settled
  <2>5. \A c \in Batches : from'[c] = IF c = b THEN taken[p] ELSE from[c]
    BY <2>1 DEF PipeType
  <2> SUFFICES ASSUME NEW r \in Requests \ again, NEW c \in Batches, r \in from'[c]
               PROVE  Settled(r)' /\ \A d \in Batches : r \in from'[d] => d = c
    BY <2>1 DEF OnceUnlessLeft, Settled
  <2>6. CASE r \in taken[p] BY <1>0, <2>3, <2>4, <2>5, <2>6
  <2>7. CASE r \notin taken[p] BY <1>0, <2>2, <2>5, <2>7
  <2>8. QED BY <2>6, <2>7
<1>5. ASSUME NEW p \in Pods, DeleteSet(p) PROVE OnceUnlessLeft'
  <2>1. /\ state' = [t \in Tasks |-> IF t \in taken[p] THEN "gone" ELSE state[t]]
        /\ taken' = [taken EXCEPT ![p] = {}] /\ step' = [step EXCEPT ![p] = "idle"]
        /\ UNCHANGED <<from, again>>
    BY <1>5 DEF DeleteSet, ghosts
  <2>2. \A r \in Requests : Settled(r) => Settled(r)'
    BY <2>1 DEF PipeType, Settled
  <2>3. QED BY <1>1, <2>1, <2>2
<1>6. ASSUME NEW p \in Pods, LeaveSet(p), UNCHANGED <<state, job, from>> PROVE OnceUnlessLeft'
  <2>1. /\ taken' = [taken EXCEPT ![p] = {}] /\ step' = [step EXCEPT ![p] = "idle"]
        /\ again' = IF step[p] = "sent" THEN again \cup taken[p] ELSE again
    BY <1>6 DEF LeaveSet
  <2>2. \A r \in Requests \ again' : Settled(r) => Settled(r)'
    BY <1>6, <2>1 DEF PipeType, Settled
  <2>3. QED BY <1>1, <1>6, <2>1, <2>2
<1>7. ASSUME NEW S \in stale, Reclaim(S) PROVE OnceUnlessLeft'
  <2>1. /\ state' = [t \in Tasks |-> IF t \in S THEN "grouped" ELSE state[t]]
        /\ UNCHANGED <<taken, step, from, again>>
    BY <1>7 DEF Reclaim, ghosts
  <2>2. \A r \in Requests : Settled(r) => Settled(r)'
    BY <2>1 DEF PipeType, Owned, Settled
  <2>3. QED BY <1>1, <2>1, <2>2
<1>8. QED BY <1>2, <1>3, <1>4, <1>5, <1>6, <1>7, GroupCases

-----------------------------------------------------------------------------
(* What is in the payloads.                                                *)

\* A constructor's payload is in one format, says one text, and gives it the number of the
\* request; a task is grouped by that number.
LEMMA BuiltPayload ==
  ASSUME NEW r \in Requests, NEW f \in Formats
  PROVE  LET j == Build(Req[r], f)
             c == j.payload.content
         IN  /\ j.group # NoGroup => Constructs(Req[r]) /\ j.group = Req[r].num
             /\ Constructs(Req[r]) /\ Req[r].type = "webhook:send" => j.unique
             /\ j.type = Req[r].type
             /\ Constructs(Req[r]) =>
                    /\ c.texts = {Req[r].text} /\ c.numbered = {Req[r].text}
                    /\ Fits(Req[r].num) => c.num[Req[r].text] = Req[r].num
                    /\ \A g \in Formats : Readable(g, j.payload) <=> g = f
             /\ ~Refused(Req[r]) /\ ~Complete(c) => Req[r].by = "cli"
<1> DEFINE q == Req[r]
           j == Build(q, f)
           s == Single(q.text, q.num)
<1>1. q \in RequestType BY PipelineAssumption
<1>2. /\ j.type = q.type /\ j.payload = PayloadOf(q, f)
      /\ j.group # NoGroup => Constructs(q) /\ j.group = q.num
      /\ Constructs(q) /\ q.type = "webhook:send" => j.unique
  BY <1>1, BuildType
<1>3. q.text \in Texts /\ q.num \in Int /\ q.by \in {"web", "cli", "cron"}
  BY <1>1 DEF RequestType
<1>4. /\ s \in Contents /\ s.texts = {q.text} /\ s.numbered = {q.text}
      /\ s.num[q.text] = q.num
  BY <1>3, SingleType DEF Single, Lines
<1>5. CASE Constructs(q)
  <2>1. j.payload = Marshal(f, s) BY <1>2, <1>5 DEF PayloadOf
  <2> HIDE DEF q, j, s
  <2>2. /\ j.payload.content.texts = s.texts /\ j.payload.content.numbered = s.numbered
        /\ \A m \in Texts : Fits(s.num[m]) => j.payload.content.num[m] = s.num[m]
        /\ \A g \in Formats : Readable(g, j.payload) <=> g = f
    BY <1>4, <2>1, MarshalType, MarshalReadable
  <2>3. Complete(j.payload.content) BY <1>4, <2>2 DEF Complete
  <2>4. QED BY <1>2, <1>3, <1>4, <1>5, <2>2, <2>3 DEF q, j
<1>6. CASE ~Constructs(q)
  <2>1. CASE q.by = "cron"
    <3>1. j.payload = Nil BY <1>2, <1>6, <2>1 DEF PayloadOf
    <3>2. Complete(Nil.content) BY DEF Nil, Zero, Single, Lines, Complete
    <3>3. QED BY <1>2, <1>6, <3>1, <3>2
  <2>2. CASE q.by = "web" BY <1>2, <1>6, <2>2 DEF Refused
  <2>3. QED BY <1>2, <1>3, <1>6, <2>1, <2>2
<1>7. QED BY <1>5, <1>6

\* What a batch is, once made: it is even, says only what its members say, and was written
\* in a format in which it carries all it could decode.
Made(r) ==
    /\ ~Refused(Req[r])
    /\ \E f \in seen : job[r] = Build(Req[r], f)

Sources(b) ==
    /\ \A r \in from[b] : job[r] # NoJob /\ job[r].group # NoGroup
    /\ \A r, s \in from[b] : Req[r].num = Req[s].num

Written(b) ==
    /\ job[b].type = "notification:batch"
    /\ job[b].payload.content.numbered = job[b].payload.content.texts
    /\ \A m \in job[b].payload.content.texts : \A r \in from[b] :
          Fits(Req[r].num) => job[b].payload.content.num[m] = Req[r].num
    /\ \E f \in seen :
          /\ Readable(f, job[b].payload)
          /\ \A r \in from[b] : Readable(f, job[r].payload)
                                    => job[r].payload.content.texts
                                          \subseteq job[b].payload.content.texts

JobInv ==
    /\ \A p \in Pods : format[p] \in seen
    /\ \A r \in Requests : job[r] # NoJob => Made(r)
    /\ \A b \in Batches : job[b] = NoJob => from[b] = {}
    /\ \A b \in Batches : job[b] # NoJob => Sources(b) /\ Written(b)
    /\ \A p \in Pods : \A r, s \in taken[p] : job[r].group = job[s].group
    /\ \A p \in Pods : step[p] = "sent" => \E b \in Batches : from[b] = taken[p]

LEMMA InitJob == Init => JobInv
  BY TasksDiffer DEF Init, JobInv, Tasks

\* Once enqueued, a task keeps its job.
LEMMA JobCases ==
  ASSUME PipeType, Known, [Next]_vars
  PROVE  \/ UNCHANGED <<job, from>> /\ seen \subseteq seen'
         \/ \E r \in Requests, f \in Formats : state[r] = "new" /\ Accepted(r, f)
         \/ \E p \in Pods, b \in Batches : SendBatch(p, b)
<1>1. ASSUME NEW r \in Requests, Enqueue(r)
      PROVE  \/ UNCHANGED <<job, from>> /\ seen \subseteq seen'
             \/ \E f \in Formats : state[r] = "new" /\ Accepted(r, f)
  BY <1>1, EnqueueCases DEF Reject, ghosts
<1>2. QED
  BY <1>1 DEF Next, TaskStep, GroupStep, Forward, LockExpires, Handle, ReadGroup, DeleteSet,
     Abandon, Reclaim, Restart, vars, groupVars, ghosts

LEMMA JobKept ==
  ASSUME PipeType, Known, [Next]_vars
  PROVE  /\ seen \subseteq seen'
         /\ \A t \in Tasks : job[t] # NoJob => job'[t] = job[t]
         /\ \A b \in Batches : job[b] # NoJob => from'[b] = from[b]
<1> USE DEF Tasks
<1>1. CASE UNCHANGED <<job, from>> /\ seen \subseteq seen' BY <1>1
<1>2. ASSUME NEW r \in Requests, NEW f \in Formats, state[r] = "new", Accepted(r, f)
      PROVE  /\ seen \subseteq seen'
             /\ \A t \in Tasks : job[t] # NoJob => job'[t] = job[t]
             /\ UNCHANGED from
  BY <1>2 DEF Accepted, Accept, Known, PipeType, ghosts
<1>3. ASSUME NEW p \in Pods, NEW b \in Batches, SendBatch(p, b)
      PROVE  /\ seen \subseteq seen'
             /\ \A t \in Tasks : job[t] # NoJob => job'[t] = job[t]
             /\ \A c \in Batches : job[c] # NoJob => from'[c] = from[c]
  BY <1>3 DEF SendBatch, Known, PipeType
<1>4. QED BY <1>1, <1>2, <1>3, JobCases

LEMMA JobInductive ==
  ASSUME PipeType, Known, Owned, JobInv, PipeType', [Next]_vars
  PROVE  JobInv'
<1> USE DEF Tasks
<1>1. /\ seen \subseteq seen'
      /\ \A t \in Tasks : job[t] # NoJob => job'[t] = job[t]
      /\ \A b \in Batches : job[b] # NoJob => from'[b] = from[b]
  BY JobKept
<1>2. \A r \in Requests : job[r] # NoJob /\ Made(r) => Made(r)' BY <1>1 DEF Made
<1>3. ASSUME NEW b \in Batches, job[b] # NoJob PROVE Sources(b)' /\ Written(b)'
  <2>1. Sources(b) /\ Written(b) BY <1>3 DEF JobInv
  <2>2. job'[b] = job[b] /\ from'[b] = from[b] /\ from[b] \subseteq Requests
    BY <1>1, <1>3 DEF PipeType
  <2>3. \A r \in from[b] : job'[r] = job[r] BY <1>1, <2>1, <2>2 DEF Sources
  <2>4. QED BY <1>1, <2>1, <2>2, <2>3 DEF Sources, Written
<1>4. \A p \in Pods : taken[p] \subseteq Requests /\ \A r \in taken[p] : job[r] # NoJob
  BY DEF PipeType, Owned, Known
<1>5. \A p \in Pods : format'[p] \in seen'
  <2>1. UNCHANGED format \/ \E p \in Pods : Restart(p)
    BY DEF Next, TaskStep, GroupStep, Enqueue, Reject, Accept, Forward, LockExpires, Handle,
       ReadGroup, SendBatch, DeleteSet, Abandon, Reclaim, vars
  <2>2. CASE UNCHANGED format BY <1>1, <2>2 DEF JobInv
  <2>3. ASSUME NEW p \in Pods, Restart(p) PROVE \A q \in Pods : format'[q] \in seen'
    BY <2>3 DEF Restart, JobInv, PipeType
  <2>4. QED BY <2>1, <2>2, <2>3
<1>6. \A r \in Requests : job'[r] # NoJob => Made(r)'
  <2> SUFFICES ASSUME NEW r \in Requests, job[r] = NoJob, job'[r] # NoJob PROVE Made(r)'
    BY <1>2 DEF JobInv
  <2>1. ASSUME NEW s \in Requests, NEW f \in Formats, Accepted(s, f) PROVE Made(r)'
    BY <2>1 DEF Accepted, Accept, PipeType, Made
  <2>2. ASSUME NEW p \in Pods, NEW b \in Batches, SendBatch(p, b) PROVE FALSE
    BY <2>2, TasksDiffer DEF SendBatch, PipeType
  <2>3. QED BY <2>1, <2>2, JobCases
<1>7. \A b \in Batches : job'[b] = NoJob => from'[b] = {}
  <2> SUFFICES ASSUME NEW b \in Batches, job'[b] = NoJob PROVE from'[b] = {} OBVIOUS
  <2>1. job[b] = NoJob /\ from[b] = {} BY <1>1 DEF JobInv
  <2>2. ASSUME NEW p \in Pods, NEW c \in Batches, SendBatch(p, c) PROVE from'[b] = {}
    <3>1. /\ from' = [from EXCEPT ![c] = taken[p]]
          /\ job' = [job EXCEPT ![c] = BatchJob(taken[p], format[p])]
          /\ taken[p] # {}
      BY <2>2 DEF SendBatch, PipeType
    <3>2. BatchJob(taken[p], format[p]) # NoJob
      BY <1>4, <3>1, BatchMembers, JobFields, FormatsKnown DEF PipeType
    <3>3. b # c BY <3>1, <3>2 DEF PipeType
    <3>4. QED BY <2>1, <3>1, <3>3 DEF PipeType
  <2>3. ASSUME NEW s \in Requests, NEW f \in Formats, Accepted(s, f) PROVE from'[b] = {}
    BY <2>1, <2>3 DEF Accepted, Accept, ghosts
  <2>4. QED BY <2>1, <2>2, <2>3, JobCases
<1>8. \A b \in Batches : job'[b] # NoJob => Sources(b)' /\ Written(b)'
  <2> SUFFICES ASSUME NEW b \in Batches, job[b] = NoJob, job'[b] # NoJob
               PROVE  Sources(b)' /\ Written(b)'
    BY <1>3
  <2>1. ~(\E r \in Requests, f \in Formats : Accepted(r, f))
    BY TasksDiffer DEF Accepted, Accept, PipeType
  <2>2. PICK p \in Pods : SendBatch(p, b)
    BY <2>1, JobCases DEF SendBatch, PipeType
  <2> DEFINE S == taken[p]
             f == format[p]
             c == job'[b].payload.content
  <2>3. /\ from'[b] = S /\ job'[b] = BatchJob(S, f)
        /\ S \in SUBSET Requests /\ f \in Formats /\ S # {}
    BY <2>2, FormatsKnown DEF SendBatch, PipeType
  <2>4. ASSUME NEW r \in S
        PROVE  /\ job[r] # NoJob /\ job'[r] = job[r] /\ job[r].group # NoGroup
               /\ job[r].group = Req[r].num
               /\ job[r].payload.content.texts = {Req[r].text}
               /\ Fits(Req[r].num) => job[r].payload.content.num[Req[r].text] = Req[r].num
    <3>1. job[r] # NoJob /\ job'[r] = job[r] /\ r \in Requests BY <1>1, <1>4
    <3>2. job[r].group # NoGroup BY <3>1 DEF Known, Owned
    <3>3. PICK g \in Formats : job[r] = Build(Req[r], g)
      BY <3>1 DEF JobInv, Made, PipeType
    <3>4. QED BY <3>1, <3>2, <3>3, BuiltPayload
  <2>5. \A r, s \in S : Req[r].num = Req[s].num BY <2>4 DEF JobInv
  <2>6. Sources(b)' BY <2>3, <2>4, <2>5 DEF Sources
  <2>7. /\ job'[b].type = "notification:batch"
        /\ Readable(f, job'[b].payload) /\ c.numbered = c.texts
        /\ \A r \in S : Readable(f, job[r].payload)
                            => job[r].payload.content.texts \subseteq c.texts
        /\ \A m \in c.texts : \E r \in S :
              /\ m \in job[r].payload.content.texts
              /\ Fits(job[r].payload.content.num[m])
                    => c.num[m] = job[r].payload.content.num[m]
    <3>1. \A r \in S : job[r] # NoJob BY <1>4
    <3> HIDE DEF S, f
    <3> DEFINE B == BatchJob(S, f)
    <3>2. /\ B.type = "notification:batch" /\ Readable(f, B.payload)
          /\ B.payload.content.numbered = B.payload.content.texts
          /\ \A r \in S : Readable(f, job[r].payload)
                              => job[r].payload.content.texts \subseteq B.payload.content.texts
          /\ \A m \in B.payload.content.texts : \E r \in S :
                /\ m \in job[r].payload.content.texts
                /\ Fits(job[r].payload.content.num[m])
                      => B.payload.content.num[m] = job[r].payload.content.num[m]
      BY <2>3, <3>1, BatchMembers
    <3>3. B = job'[b] BY <2>3
    <3> HIDE DEF B
    <3>4. QED BY <3>2, <3>3
  <2> HIDE DEF S, f, c
  <2>8. ASSUME NEW m \in c.texts, NEW s \in S, Fits(Req[s].num)
        PROVE  c.num[m] = Req[s].num
    <3>1. PICK r \in S :
            /\ m \in job[r].payload.content.texts
            /\ Fits(job[r].payload.content.num[m]) => c.num[m] = job[r].payload.content.num[m]
      BY <2>7
    <3>2. Req[r].num = Req[s].num BY <2>5
    <3>3. job[r].payload.content.texts = {Req[r].text} BY <2>4
    <3>4. m = Req[r].text BY <3>1, <3>3
    <3>5. job[r].payload.content.num[m] = Req[r].num BY <2>4, <2>8, <3>2, <3>4
    <3>6. QED BY <2>8, <3>1, <3>2, <3>5
  <2>9. f \in seen' BY <1>1 DEF JobInv, f
  <2>10. Written(b)'
    <3>1. \A r \in S : Readable(f, job'[r].payload) => job'[r].payload.content.texts \subseteq c.texts
      BY <2>4, <2>7
    <3>2. \E g \in seen' : /\ Readable(g, job'[b].payload)
                          /\ \A r \in S : Readable(g, job'[r].payload)
                                  => job'[r].payload.content.texts \subseteq c.texts
      BY <2>7, <2>9, <3>1
    <3>3. QED BY <2>3, <2>7, <2>8, <3>2 DEF Written, c
  <2>11. QED BY <2>6, <2>10
<1>9. \A p \in Pods : \A r, s \in taken'[p] : job'[r].group = job'[s].group
  <2>1. ASSUME \A p \in Pods : taken'[p] \subseteq taken[p]
        PROVE  \A p \in Pods : \A r, s \in taken'[p] : job'[r].group = job'[s].group
    BY <1>1, <1>4, <2>1 DEF JobInv
  <2>2. ASSUME NEW p \in Pods, NEW r \in Requests, ReadGroup(p, r)
        PROVE  \A q \in Pods : \A s, t \in taken'[q] : job'[s].group = job'[t].group
    <3>1. PICK S \in SUBSET Group(r) : taken' = [taken EXCEPT ![p] = S]
      BY <2>2 DEF ReadGroup
    <3>2. UNCHANGED job BY <2>2 DEF ReadGroup
    <3>3. \A s \in S : job[s].group = job[r].group BY DEF Group
    <3>4. QED BY <3>1, <3>2, <3>3 DEF PipeType, JobInv
  <2>3. QED
    BY <2>1, <2>2, GroupCases DEF GroupQuiet, SendBatch, DeleteSet, LeaveSet, Reclaim, PipeType
<1>10. \A p \in Pods : step'[p] = "sent" => \E b \in Batches : from'[b] = taken'[p]
  <2>1. ASSUME UNCHANGED from,
               \A p \in Pods : step'[p] = "sent" => step[p] = "sent" /\ taken'[p] = taken[p]
        PROVE  \A p \in Pods : step'[p] = "sent" => \E b \in Batches : from'[b] = taken'[p]
    BY <2>1 DEF JobInv
  <2>2. ASSUME NEW p \in Pods, NEW b \in Batches, SendBatch(p, b)
        PROVE  \A q \in Pods : step'[q] = "sent" => \E c \in Batches : from'[c] = taken'[q]
    <3>1. /\ from' = [from EXCEPT ![b] = taken[p]] /\ step' = [step EXCEPT ![p] = "sent"]
          /\ UNCHANGED taken
      BY <2>2 DEF SendBatch
    <3>2. ASSUME NEW q \in Pods, q # p, step[q] = "sent"
          PROVE  \E c \in Batches : from'[c] = taken[q]
      <4>1. PICK c \in Batches : from[c] = taken[q] BY <3>2 DEF JobInv
      <4>2. taken[q] # {} BY <3>2 DEF PipeType
      <4>3. job[c] # NoJob BY <4>1, <4>2 DEF JobInv
      <4>4. QED BY <1>1, <4>1, <4>3
    <3>3. QED BY <3>1, <3>2 DEF PipeType
  <2>3. QED
    BY <2>1, <2>2, GroupCases
       DEF GroupQuiet, ReadGroup, DeleteSet, LeaveSet, Reclaim, PipeType, ghosts
<1>11. QED BY <1>5, <1>6, <1>7, <1>8, <1>9, <1>10 DEF JobInv

\* What was deleted is in a batch.
DeletedInv == \A r \in Requests : state[r] = "gone" => r \in Aggregated

LEMMA DeletedInductive ==
  ASSUME PipeType, Known, Owned, JobInv, DeletedInv, [Next]_vars
  PROVE  DeletedInv'
<1> USE DEF Tasks
<1>1. Aggregated \subseteq Aggregated'
  <2>1. \A b \in Batches : from[b] = {} \/ from'[b] = from[b] BY JobKept DEF JobInv
  <2>2. QED BY <2>1 DEF Aggregated
<1>2. ASSUME \A r \in Requests : state'[r] = "gone" => state[r] = "gone" \/ r \in Aggregated
      PROVE  DeletedInv'
  BY <1>1, <1>2 DEF DeletedInv
<1>3. ASSUME NEW p \in Pods, DeleteSet(p) PROVE DeletedInv'
  <2>1. /\ state' = [t \in Tasks |-> IF t \in taken[p] THEN "gone" ELSE state[t]]
        /\ step[p] = "sent"
    BY <1>3 DEF DeleteSet
  <2>2. taken[p] \subseteq Aggregated BY <2>1 DEF JobInv, Aggregated
  <2>3. QED BY <1>2, <2>1, <2>2
<1>4. ASSUME NEW p \in Pods, NEW r \in Requests, ReadGroup(p, r) PROVE DeletedInv'
  <2>1. \A t \in Tasks : state'[t] \in {"taken", state[t]} BY <1>4 DEF ReadGroup
  <2>2. QED BY <1>2, <2>1
<1>5. QED
  BY <1>2, <1>3, <1>4, GroupCases
     DEF GroupQuiet, SendBatch, SetState, Reclaim, PipeType

-----------------------------------------------------------------------------
(* Unique locks.                                                           *)

LockInv ==
    /\ \A t \in locked : job[t] # NoJob
    /\ \A t, u \in locked : t # u => UniqueKey(job[t]) # UniqueKey(job[u])
    /\ \A r \in Requests :
          state[r] \in Waiting /\ job[r].unique => r \in locked \/ r \in lapsed

LEMMA LockInductive ==
  ASSUME PipeType, Known, Owned, LockInv, [Next]_vars
  PROVE  LockInv'
<1> USE DEF Tasks
<1>1. \A t \in Tasks : job[t] # NoJob => job'[t] = job[t] BY JobKept
<1>2. \A t \in Tasks : state[t] \in Waiting => job[t] # NoJob
  BY DEF Known, Waiting
\* Enough for the steps that give out no lock.
<1>3. ASSUME locked' \subseteq locked,
             \A r \in Requests : state'[r] \in Waiting
                => state[r] \in Waiting /\ (r \in locked \/ r \in lapsed => r \in locked' \/ r \in lapsed')
      PROVE  LockInv'
  <2>1. \A t \in locked' : job[t] # NoJob /\ job'[t] = job[t]
    BY <1>1, <1>3 DEF LockInv, PipeType
  <2>2. \A t, u \in locked' : t # u => UniqueKey(job[t]) # UniqueKey(job[u])
    BY <1>3 DEF LockInv
  <2>3. ASSUME NEW r \in Requests, state'[r] \in Waiting, job'[r].unique
        PROVE  r \in locked' \/ r \in lapsed'
    BY <1>1, <1>2, <1>3, <2>3 DEF LockInv
  <2>4. QED BY <2>1, <2>2, <2>3 DEF LockInv, UniqueKey
<1>4. ASSUME NEW r \in Requests, NEW why \in {"refused", "duplicate"}, Reject(r, why)
      PROVE  LockInv'
  BY <1>3, <1>4 DEF Reject, SetState, ghosts, PipeType, Waiting
<1>5. ASSUME NEW r \in Requests, NEW f \in Formats, state[r] = "new", Accepted(r, f)
      PROVE  LockInv'
  <2> DEFINE j == Build(Req[r], f)
  <2>1. /\ job' = [job EXCEPT ![r] = j] /\ UNCHANGED lapsed
        /\ locked' = IF j.unique THEN locked \cup {r} ELSE locked
        /\ \E s \in States : state' = [state EXCEPT ![r] = s]
        /\ j.unique => \A t \in locked : UniqueKey(job[t]) # UniqueKey(j)
        /\ j # NoJob
    BY <1>5, BuiltType, JobFields
       DEF Accepted, Accept, Held, ghosts, SetState, Ready, States, Waiting, Final
  <2> HIDE DEF j
  <2>2. r \notin locked BY <1>5 DEF LockInv, Known
  <2>3. \A t \in locked : job'[t] = job[t] BY <2>1, <2>2 DEF PipeType
  <2>4. job'[r] = j BY <2>1 DEF PipeType
  <2>5. \A t \in locked' : job'[t] # NoJob BY <2>1, <2>3, <2>4 DEF LockInv
  <2>6. \A t, u \in locked : t # u => UniqueKey(job'[t]) # UniqueKey(job'[u])
    BY <2>3 DEF LockInv, UniqueKey
  <2>7. j.unique => \A t \in locked : UniqueKey(job'[t]) # UniqueKey(job'[r])
    BY <2>1, <2>3, <2>4 DEF UniqueKey
  <2>8. \A t, u \in locked' : t # u => UniqueKey(job'[t]) # UniqueKey(job'[u])
    BY <2>1, <2>6, <2>7
  <2>9. ASSUME NEW s \in Requests, state'[s] \in Waiting, job'[s].unique
        PROVE  s \in locked' \/ s \in lapsed'
    <3>1. CASE s = r BY <2>1, <2>4, <2>9, <3>1
    <3>2. CASE s # r
      <4>1. state'[s] = state[s] /\ job'[s] = job[s] BY <2>1, <3>2 DEF PipeType
      <4>2. QED BY <2>1, <2>9, <4>1 DEF LockInv
    <3>3. QED BY <3>1, <3>2
  <2>10. QED BY <2>5, <2>8, <2>9 DEF LockInv, UniqueKey
<1>6. ASSUME NEW t \in Tasks, Forward(t) PROVE LockInv'
  BY <1>3, <1>6 DEF Forward, SetState, ghosts, PipeType, Waiting
<1>7. ASSUME NEW t \in Tasks, LockExpires(t) PROVE LockInv'
  BY <1>3, <1>7 DEF LockExpires
<1>8. ASSUME NEW t \in Tasks, NEW p \in Pods, Handle(p, t) PROVE LockInv'
  <2>1. state[t] = "pending" /\ UNCHANGED lapsed BY <1>8 DEF Handle, ghosts
  <2>2. \/ state' = [state EXCEPT ![t] = "done"] /\ locked' = locked \ {t}
        \/ \E s \in States : state' = [state EXCEPT ![t] = s] /\ UNCHANGED locked
    BY <1>8 DEF Handle, Fail, SetState, States, Waiting, Final
  <2>3. "pending" \in Waiting /\ "done" \notin Waiting BY DEF Waiting
  <2>4. QED BY <1>3, <2>1, <2>2, <2>3 DEF PipeType
<1>9. ASSUME NEW p \in Pods, NEW r \in Requests, ReadGroup(p, r) PROVE LockInv'
  <2>1. PICK S \in SUBSET Group(r) :
          state' = [t \in Tasks |-> IF t \in S THEN "taken" ELSE state[t]]
    BY <1>9 DEF ReadGroup
  <2>2. \A s \in S : state[s] \in Waiting BY DEF Group, Waiting
  <2>3. UNCHANGED <<locked, lapsed>> BY <1>9 DEF ReadGroup, ghosts
  <2>4. QED BY <1>3, <2>1, <2>2, <2>3
<1>10. ASSUME NEW p \in Pods, NEW b \in Batches, SendBatch(p, b) PROVE LockInv'
  <2>1. b \notin Requests BY TasksDiffer
  <2>2. QED BY <1>3, <1>10, <2>1 DEF SendBatch, SetState, PipeType
<1>11. ASSUME NEW p \in Pods, DeleteSet(p) PROVE LockInv'
  BY <1>3, <1>11 DEF DeleteSet, ghosts, Waiting
<1>12. ASSUME NEW p \in Pods, Abandon(p) \/ Restart(p) PROVE LockInv'
  BY <1>3, <1>12 DEF Abandon, Restart
<1>13. ASSUME NEW S \in stale, Reclaim(S) PROVE LockInv'
  <2>1. \A s \in S : state[s] \in Waiting BY DEF Owned, Waiting
  <2>2. QED BY <1>3, <1>13, <2>1 DEF Reclaim, ghosts
<1>14. CASE UNCHANGED vars BY <1>3, <1>14 DEF vars, ghosts
<1>15. QED
  BY <1>4, <1>5, <1>6, <1>7, <1>8, <1>9, <1>10, <1>11, <1>12, <1>13, <1>14, EnqueueCases
     DEF Next, TaskStep, GroupStep

-----------------------------------------------------------------------------
(* Every reachable state.                                                  *)

Inv ==
    /\ PipeType /\ Known /\ Owned /\ Unstranded
    /\ OnceUnlessLeft /\ JobInv /\ DeletedInv /\ LockInv

LEMMA InitInv == Init => Inv
<1>1. Init => Unstranded /\ OnceUnlessLeft /\ DeletedInv /\ LockInv
  BY DEF Init, Unstranded, OnceUnlessLeft, DeletedInv, LockInv, Waiting, Tasks
<1>2. QED BY <1>1, InitType, InitJob DEF Inv

LEMMA InvInductive == Inv /\ [Next]_vars => Inv'
<1> SUFFICES ASSUME Inv, [Next]_vars PROVE Inv' OBVIOUS
<1>1. PipeType' /\ Known' BY TypeInductive DEF Inv
<1>2. Owned' BY OwnedInductive DEF Inv
<1>3. OnceUnlessLeft' BY OnceInductive DEF Inv
<1>4. JobInv' BY <1>1, JobInductive DEF Inv
<1>5. LockInv' BY LockInductive DEF Inv
<1>6. DeletedInv' BY DeletedInductive DEF Inv
<1>7. Unstranded' BY UnstrandedInductive DEF Inv
<1>8. QED BY <1>1, <1>2, <1>3, <1>4, <1>5, <1>6, <1>7 DEF Inv

LEMMA InvSafe == Spec => []Inv
  BY InitInv, InvInductive, PTL DEF Spec

LEMMA TypeHolds == PipeType => TypeOK
  BY DEF PipeType, TypeOK

\* The state of every task, set, lock and payload is of its type, whatever is requested
\* and however the pods are restarted (the actions of TaskPipeline).
THEOREM TypeCorrect == Spec => []TypeOK
<1>1. Inv => TypeOK BY TypeHolds DEF Inv
<1>2. QED BY <1>1, InvSafe, PTL

\* Only an aggregation set that was left behind between the enqueue of its batch and its
\* deletion is made into a second batch (asynq's aggregator around server.go:47).
THEOREM OncePerStay == Spec => []OnceUnlessLeft
<1>1. Inv => OnceUnlessLeft BY DEF Inv
<1>2. QED BY <1>1, InvSafe, PTL

\* Whatever pods crash, restart or miss the deadline of their set, each notification that
\* was read from its group is in exactly one set that a pod or the recoverer has in hand.
THEOREM NoneStranded == Spec => []TakenIsHeld
<1>1. Inv => TakenIsHeld
  BY DEF Inv, Unstranded, InSet, Owned, TakenIsHeld, SetsHeld
<1>2. QED BY <1>1, InvSafe, PTL

\* No batch mixes users, whatever their numbers are cut to in the payloads
\* (notification.go:28).
THEOREM BatchesKeepUsersApart == Spec => []BatchIsOneUser
<1>1. Inv => BatchIsOneUser BY DEF Inv, JobInv, Sources, BatchIsOneUser
<1>2. QED BY <1>1, InvSafe, PTL

\* The number of a request that fits in an int32 is the number its handler works with, alone
\* or in a batch (codec.go:67-113, notification.go:34-63).
THEOREM NumbersArrive == Spec => []NumbersIntact
<1>1. ASSUME Inv PROVE NumbersIntact
  <2> SUFFICES ASSUME NEW r \in Requests, job[r] # NoJob, Constructs(Req[r]), Fits(Req[r].num),
                      NEW t \in {r} \cup {b \in Batches : r \in CarriedBy(b)},
                      Req[r].text \in job[t].payload.content.numbered
               PROVE  job[t].payload.content.num[Req[r].text] = Req[r].num
    BY DEF NumbersIntact, Enqueued
  <2>1. CASE t = r
    <3>1. PICK f \in Formats : job[r] = Build(Req[r], f)
      BY <1>1 DEF Inv, JobInv, Made, PipeType
    <3>2. QED BY <2>1, <3>1, BuiltPayload
  <2>2. CASE t \in Batches /\ r \in from[t]
    <3>1. Written(t) BY <1>1, <2>2 DEF Inv, JobInv
    <3>2. QED BY <2>2, <3>1 DEF Written
  <2>3. QED BY <2>1, <2>2 DEF CarriedBy
<1>2. QED BY <1>1, InvSafe, PTL

LEMMA OneFormat ==
  ASSUME PipeType, Uniform
  PROVE  \A f, g \in seen : f = g
<1>1. IsFiniteSet(Formats)
  <2>1. Formats = {"json"} \cup {"proto"} BY DEF Formats
  <2>2. QED BY <2>1, FS_Singleton, FS_Union
<1>2. IsFiniteSet(seen) BY <1>1, FS_Subset DEF PipeType
<1>3. PICK x : seen = {x} BY <1>2, FS_Singleton DEF Uniform
<1>4. QED BY <1>3

\* Equal webhooks do not wait together unless one has outlived its lock (webhook.go:27,
\* and the options of the call in api.go:107 and scheduler.go:419): never two with one
\* unique key, nor, as long as one payload format is in use, two of one content and queue.
THEOREM WebhooksUnique == Spec => []WebhookNoTwin
<1>1. ASSUME Inv PROVE WebhookNoTwin
  <2> DEFINE W == {v \in Requests : state[v] \in Waiting /\ job[v].type = "webhook:send"}
  <2>1. ASSUME NEW r \in W
        PROVE  /\ r \in locked \/ r \in lapsed
               /\ Constructs(Req[r]) /\ Req[r].type = "webhook:send"
               /\ \E f \in seen : job[r] = Build(Req[r], f)
    <3>1. job[r] # NoJob BY <1>1 DEF Inv, Known, Waiting, Tasks
    <3>2. PICK f \in seen : job[r] = Build(Req[r], f)
      BY <1>1, <3>1 DEF Inv, JobInv, Made
    <3>3. f \in Formats BY <1>1 DEF Inv, PipeType
    <3>4. Req[r].type = "webhook:send" BY <3>2, <3>3, BuiltPayload
    <3>5. Constructs(Req[r])
      <4>1. Req[r].by \in {"web", "cli", "cron"} BY PipelineAssumption DEF RequestType
      <4>2. QED BY <3>4, <4>1 DEF Constructs, Constructed
    <3>6. job[r].unique BY <3>2, <3>3, <3>4, <3>5, BuiltPayload
    <3>7. QED BY <1>1, <3>2, <3>4, <3>5, <3>6 DEF Inv, LockInv
  <2>2. ASSUME NEW t \in W, NEW u \in W, Uniform, SameWebhook(t, u)
        PROVE  UniqueKey(job[t]) = UniqueKey(job[u])
    <3>1. PICK f \in seen : job[t] = Build(Req[t], f) BY <2>1
    <3>2. PICK g \in seen : job[u] = Build(Req[u], g) BY <2>1
    <3>3. f = g /\ f \in Formats BY <1>1, <2>2, OneFormat DEF Inv, PipeType
    <3>4. Req[t] \in RequestType /\ Req[u] \in RequestType BY PipelineAssumption
    <3>5. job[t].payload = PayloadOf(Req[t], f) /\ job[u].payload = PayloadOf(Req[u], f)
      BY <3>1, <3>2, <3>3, <3>4, BuildType
    <3>6. PayloadOf(Req[t], f) = PayloadOf(Req[u], f)
      BY <2>1, <2>2 DEF PayloadOf, SameWebhook
    <3>7. QED BY <2>2, <3>5, <3>6 DEF UniqueKey, SameWebhook
  <2>3. ASSUME NEW t \in W, NEW u \in W, t # u, UniqueKey(job[t]) = UniqueKey(job[u])
        PROVE  t \in lapsed \/ u \in lapsed
    BY <1>1, <2>1, <2>3 DEF Inv, LockInv
  <2> HIDE DEF W
  <2>4. \A t, u \in W : t # u /\ (UniqueKey(job[t]) = UniqueKey(job[u])
                                      \/ (Uniform /\ SameWebhook(t, u)))
                            => t \in lapsed \/ u \in lapsed
    BY <2>2, <2>3
  <2>5. QED BY <2>4 DEF WebhookNoTwin, W
<1>2. QED BY <1>1, InvSafe, PTL

\* Only a raw payload from the command line can make the index of HandleNotificationBatch
\* run out (notification.go:96).
THEOREM ShortBatches == Spec => []ShortOnlyFromCLI
<1>1. ASSUME Inv PROVE ShortOnlyFromCLI
  <2> SUFFICES ASSUME NEW t \in Tasks, job[t] # NoJob, ~Complete(job[t].payload.content)
               PROVE  t \in Requests /\ Req[t].by = "cli"
    BY DEF ShortOnlyFromCLI, Enqueued
  <2>1. t \notin Batches BY <1>1 DEF Inv, JobInv, Written, Complete
  <2>2. t \in Requests BY <2>1 DEF Tasks
  <2>3. PICK f \in Formats : ~Refused(Req[t]) /\ job[t] = Build(Req[t], f)
    BY <1>1, <2>2 DEF Inv, JobInv, Made, PipeType
  <2>4. QED BY <2>2, <2>3, BuiltPayload
<1>2. QED BY <1>1, InvSafe, PTL

\* With one format in use, what a constructor or the aggregator wrote can be read by whoever
\* handles it (codec.go:25-65).
THEOREM OneFormatIsReadable == Spec => []UniformIsReadable
<1>1. ASSUME Inv PROVE UniformIsReadable
  <2> SUFFICES ASSUME Uniform, NEW t \in Tasks, state[t] = "archived",
                      t \in Batches \/ Constructs(Req[t]), NEW g \in seen
               PROVE  Readable(g, job[t].payload)
    BY DEF UniformIsReadable
  <2>1. seen \subseteq Formats BY <1>1 DEF Inv, PipeType
  <2>2. \A f \in seen : f = g BY <1>1, OneFormat DEF Inv
  <2>3. job[t] # NoJob BY <1>1 DEF Inv, Known
  <2>4. CASE t \in Batches
    BY <1>1, <2>2, <2>3, <2>4 DEF Inv, JobInv, Written
  <2>5. CASE t \in Requests /\ Constructs(Req[t])
    <3>1. PICK f \in seen : job[t] = Build(Req[t], f)
      BY <1>1, <2>3, <2>5 DEF Inv, JobInv, Made
    <3>2. QED BY <2>1, <2>2, <2>5, <3>1, BuiltPayload
  <2>6. QED BY <2>4, <2>5 DEF Tasks
<1>2. QED BY <1>1, InvSafe, PTL

\* With one format in use, AggregateNotifications skips nothing (notification.go:34-63).
THEOREM OneFormatIsCarried == Spec => []UniformIsCarried
<1>1. ASSUME Inv PROVE UniformIsCarried
  <2> SUFFICES ASSUME Uniform, NEW b \in Batches, NEW r \in from[b]
               PROVE  job[r].payload.content.texts \subseteq job[b].payload.content.texts
    BY DEF UniformIsCarried, CarriedBy
  <2>1. job[b] # NoJob /\ r \in Requests BY <1>1 DEF Inv, JobInv, PipeType
  <2>2. PICK f \in seen :
          Readable(f, job[r].payload)
             => job[r].payload.content.texts \subseteq job[b].payload.content.texts
    BY <1>1, <2>1 DEF Inv, JobInv, Written
  <2>3. job[r] # NoJob /\ job[r].group # NoGroup BY <1>1, <2>1 DEF Inv, JobInv, Sources
  <2>4. PICK g \in seen : job[r] = Build(Req[r], g)
    BY <1>1, <2>1, <2>3 DEF Inv, JobInv, Made
  <2>5. f = g /\ g \in Formats BY <1>1, OneFormat DEF Inv, PipeType
  <2>6. Readable(g, job[r].payload) BY <2>1, <2>3, <2>4, <2>5, BuiltPayload
  <2>7. QED BY <2>2, <2>5, <2>6
<1>2. QED BY <1>1, InvSafe, PTL

-----------------------------------------------------------------------------
(* Refinement of GroupOutbox.                                              *)

gone == {r \in Requests : state[r] = "gone"}
inProto == {r \in Grouped : Readable("proto", job[r].payload)}

LEMMA InitOutbox == Init => Outbox!Init
  BY DEF Init, Outbox!Init, Grouped, Enqueued, Aggregated, Carried, CarriedBy, Tasks

\* What was batched stays batched, and what was carried, carried.
LEMMA OutboxKept ==
  ASSUME Inv, Inv', [Next]_vars
  PROVE  /\ Grouped \subseteq Grouped'
         /\ \A r \in Grouped : r \in inProto' <=> r \in inProto
         /\ \A b \in Batches : job[b] # NoJob => from'[b] = from[b] /\ CarriedBy(b)' = CarriedBy(b)
         /\ \A b \in Batches : job[b] = NoJob => from[b] = {} /\ CarriedBy(b) = {}
         /\ Aggregated \subseteq Grouped /\ Carried \subseteq Aggregated
<1>1. \A t \in Tasks : job[t] # NoJob => job'[t] = job[t] BY JobKept DEF Inv
<1>2. \A b \in Batches : job[b] # NoJob => from'[b] = from[b] BY JobKept DEF Inv
<1>3. \A r \in Grouped : job'[r] = job[r] BY <1>1 DEF Grouped, Enqueued, Tasks
<1>4. Grouped \subseteq Grouped' BY <1>3 DEF Grouped, Enqueued
<1>5. \A r \in Grouped : r \in inProto' <=> r \in inProto BY <1>3, <1>4 DEF inProto
<1>6. \A b \in Batches : job[b] = NoJob => from[b] = {} /\ CarriedBy(b) = {}
  BY DEF Inv, JobInv, CarriedBy
<1>7. \A b \in Batches : from[b] \subseteq Grouped
  <2>1. \A b \in Batches : from[b] \subseteq Requests BY DEF Inv, PipeType
  <2>2. \A b \in Batches : job[b] # NoJob => from[b] \subseteq Grouped
    BY <2>1 DEF Inv, JobInv, Sources, Grouped, Enqueued
  <2>3. QED BY <1>6, <2>2
<1>8. \A b \in Batches : job[b] # NoJob => CarriedBy(b)' = CarriedBy(b)
  <2> SUFFICES ASSUME NEW b \in Batches, job[b] # NoJob PROVE CarriedBy(b)' = CarriedBy(b)
    OBVIOUS
  <2>1. job'[b] = job[b] /\ from'[b] = from[b] BY <1>1, <1>2 DEF Tasks
  <2>2. \A r \in from[b] : job'[r] = job[r] BY <1>3, <1>7
  <2>3. QED BY <2>1, <2>2 DEF CarriedBy
<1>9. \A b \in Batches : CarriedBy(b) \subseteq from[b] BY DEF CarriedBy
<1>10. Aggregated \subseteq Grouped BY <1>7 DEF Aggregated
<1>11. Carried \subseteq Aggregated BY <1>9 DEF Aggregated, Carried
<1>12. QED BY <1>2, <1>4, <1>5, <1>6, <1>8, <1>10, <1>11

\* A step that makes no batch and enqueues and deletes no member changes nothing.
LEMMA OutboxStutters ==
  ASSUME Inv, UNCHANGED <<job, from>>, gone' = gone
  PROVE  UNCHANGED Outbox!vars
  BY DEF Outbox!vars, gone, Grouped, Enqueued, Aggregated, Carried, CarriedBy

LEMMA AcceptIsAccept ==
  ASSUME Inv, Inv', [Next]_vars, NEW r \in Requests, NEW f \in Formats, state[r] = "new",
         Accepted(r, f)
  PROVE  Outbox!Accept(r) \/ UNCHANGED Outbox!vars
<1> DEFINE j == Build(Req[r], f)
<1>1. job' = [job EXCEPT ![r] = j] /\ UNCHANGED from
      /\ \E s \in {"scheduled", "pending", "grouped"} : state' = [state EXCEPT ![r] = s]
  BY DEF Accepted, Accept, ghosts, SetState, Ready
<1>2. job[r] = NoJob /\ job'[r] = j /\ j # NoJob /\ r \notin Grouped
  BY <1>1, BuiltType, JobFields DEF Accepted, Inv, Known, PipeType, Grouped, Enqueued, Tasks
<1>3. gone' = gone BY <1>1 DEF gone, Inv, PipeType, Tasks
<1>4. Aggregated' = Aggregated BY <1>1 DEF Aggregated
<1>5. Carried' = Carried
  <2>1. \A b \in Batches : CarriedBy(b)' = CarriedBy(b)
    <3>1. \A b \in Batches : job[b] = NoJob => CarriedBy(b)' = {}
      BY <1>1, OutboxKept DEF CarriedBy
    <3>2. QED BY <3>1, OutboxKept
  <2>2. QED BY <2>1 DEF Carried
<1>6. Grouped' \subseteq Grouped \cup {r}
  BY <1>1 DEF Grouped, Enqueued, Inv, PipeType, Tasks
<1>7. /\ Grouped \subseteq Grouped' /\ \A s \in Grouped : s \in inProto' <=> s \in inProto
      /\ Aggregated \subseteq Grouped /\ Carried \subseteq Aggregated
  BY OutboxKept
<1>8. inProto \subseteq Grouped /\ inProto' \subseteq Grouped' BY DEF inProto
<1>9. CASE r \in Grouped'
  <2>1. Grouped' = Grouped \cup {r} BY <1>6, <1>7, <1>9
  <2>2. inProto' \in {inProto, inProto \cup {r}} BY <1>7, <1>8, <2>1
  <2>3. Outbox!Accept(r)
    BY <1>2, <1>3, <1>4, <1>5, <1>7, <2>1, <2>2 DEF Outbox!Accept, inProto, gone
  <2>4. QED BY <2>3
<1>10. CASE r \notin Grouped'
  <2>1. Grouped' = Grouped BY <1>6, <1>7, <1>10
  <2>2. inProto' = inProto BY <1>7, <1>8, <2>1
  <2>3. QED BY <1>3, <1>4, <1>5, <2>1, <2>2 DEF Outbox!vars, inProto, gone
<1>11. QED BY <1>9, <1>10

LEMMA SendIsBatch ==
  ASSUME Inv, Inv', [Next]_vars, NEW p \in Pods, NEW b \in Batches, SendBatch(p, b)
  PROVE  Outbox!Batch
<1> DEFINE S == taken[p]
           w == Grouped \ Aggregated
           l == Aggregated \ Carried
<1>1. /\ state' = [state EXCEPT ![b] = "pending"] /\ from' = [from EXCEPT ![b] = S]
      /\ job' = [job EXCEPT ![b] = BatchJob(S, format[p])] /\ state[b] = "new"
      /\ step[p] = "read"
  BY DEF SendBatch, SetState
<1>2. b \notin Requests BY TasksDiffer
<1>3. job[b] = NoJob /\ S \subseteq Requests /\ S # {}
  BY <1>1 DEF Inv, Known, PipeType, Tasks
<1>4. \A r \in S : state[r] = "taken" /\ job[r] # NoJob /\ job[r].group # NoGroup
  BY <1>3 DEF Inv, Owned, Known, Tasks
<1>5. gone' = gone BY <1>1, <1>2 DEF gone, Inv, PipeType, Tasks
<1>6. S \subseteq Grouped /\ S \cap gone = {}
  BY <1>3, <1>4 DEF Grouped, Enqueued, gone
<1>7. Grouped' = Grouped /\ inProto' = inProto
  BY <1>1, <1>2 DEF Grouped, Enqueued, inProto, Inv, PipeType, Tasks
<1>8. \A c \in Batches : from'[c] = IF c = b THEN S ELSE from[c]
  BY <1>1 DEF Inv, PipeType
<1>9. Aggregated' = Aggregated \cup S
  BY <1>3, <1>8, OutboxKept DEF Aggregated
<1>10. \A c \in Batches : c # b => CarriedBy(c)' = CarriedBy(c)
  <2>1. ASSUME NEW c \in Batches, c # b, job[c] = NoJob PROVE CarriedBy(c)' = CarriedBy(c)
    BY <1>8, <2>1, OutboxKept DEF CarriedBy
  <2>2. QED BY <2>1, OutboxKept
<1>11. CarriedBy(b) = {} /\ CarriedBy(b)' \subseteq S
  BY <1>3, <1>8, OutboxKept DEF CarriedBy
<1>12. Carried' = Carried \cup CarriedBy(b)' BY <1>10, <1>11 DEF Carried
<1>13. S \ inProto \subseteq Carried' \/ S \cap inProto \subseteq Carried'
  <2>1. job'[b] # NoJob
    <3>1. PipeType /\ format[p] \in Formats /\ S \in SUBSET Requests
      BY <1>3, FormatsKnown DEF Inv, PipeType
    <3> HIDE DEF S
    <3>2. BatchJob(S, format[p]) \in Jobs BY <1>3, <1>4, <3>1, BatchMembers
    <3>3. job'[b] = BatchJob(S, format[p]) BY <1>1, <3>1 DEF PipeType, Tasks
    <3>4. QED BY <3>2, <3>3, JobFields
  <2>2. Written(b)' BY <2>1 DEF Inv, JobInv
  <2>3. \A r \in S : job'[r] = job[r] BY <1>1, <1>2, <1>3 DEF Inv, PipeType, Tasks
  <2>4. PICK f \in Formats : \A r \in S :
          Readable(f, job[r].payload)
             => job[r].payload.content.texts \subseteq job'[b].payload.content.texts
    <3>1. seen' \subseteq Formats BY DEF Inv, PipeType
    <3>2. QED BY <1>8, <2>2, <2>3, <3>1 DEF Written
  <2>5. \A r \in S : Readable(f, job[r].payload) => r \in CarriedBy(b)'
    BY <1>8, <2>3, <2>4 DEF CarriedBy
  <2>6. ASSUME NEW r \in S
        PROVE  Constructs(Req[r]) /\ \E g \in Formats : \A h \in Formats :
                  Readable(h, job[r].payload) <=> h = g
    <3>1. r \in Requests BY <1>3
    <3>2. PICK g \in Formats : job[r] = Build(Req[r], g)
      BY <1>4, <3>1 DEF Inv, JobInv, Made, PipeType
    <3>3. QED BY <1>4, <3>1, <3>2, BuiltPayload
  <2>7. "json" \in Formats /\ "proto" \in Formats /\ f \in {"json", "proto"} BY DEF Formats
  <2>8. CASE f = "proto" BY <1>12, <2>5, <2>8 DEF inProto
  <2>9. CASE f = "json"
    <3>1. \A r \in S \ inProto : Readable("json", job[r].payload)
      <4>1. \A r \in S \ inProto : ~Readable("proto", job[r].payload) BY <1>6 DEF inProto
      <4>2. QED BY <2>6, <2>7, <4>1 DEF Formats
    <3>2. QED BY <1>12, <2>5, <2>9, <3>1
  <2>10. QED BY <2>7, <2>8, <2>9
<1>14. Carried \subseteq Aggregated /\ Aggregated \subseteq Grouped BY OutboxKept
<1> HIDE DEF S
<1>15. /\ S \in SUBSET ((w \cup Carried \cup l) \ gone)
       /\ w' = w \ S
       /\ Carried \subseteq Carried' /\ Carried' \subseteq Carried \cup S
       /\ l' = (l \cup S) \ Carried'
  BY <1>6, <1>7, <1>9, <1>11, <1>12, <1>14
<1>16. QED BY <1>5, <1>7, <1>13, <1>15 DEF Outbox!Batch, gone, inProto

LEMMA DeleteIsDelete ==
  ASSUME Inv, Inv', [Next]_vars, NEW p \in Pods, DeleteSet(p)
  PROVE  Outbox!Delete
<1>1. /\ state' = [t \in Tasks |-> IF t \in taken[p] THEN "gone" ELSE state[t]]
      /\ UNCHANGED <<job, from>> /\ step[p] = "sent"
  BY DEF DeleteSet, ghosts
<1>2. PICK b \in Batches : from[b] = taken[p] BY <1>1 DEF Inv, JobInv
<1>3. taken[p] \subseteq Aggregated BY <1>2 DEF Aggregated
<1>4. gone \subseteq gone' BY <1>1 DEF gone, Tasks
<1>5. gone' \subseteq Aggregated \cup gone BY <1>1, <1>3 DEF gone, Tasks
<1>6. gone \subseteq Aggregated BY DEF Inv, DeletedInv, gone
<1>7. Grouped' = Grouped /\ inProto' = inProto /\ Aggregated' = Aggregated /\ Carried' = Carried
  BY <1>1 DEF Grouped, inProto, Enqueued, Aggregated, Carried, CarriedBy
<1>8. Carried \subseteq Aggregated BY OutboxKept
<1>9. QED BY <1>4, <1>5, <1>6, <1>7, <1>8 DEF Outbox!Delete, gone, inProto

\* No notification is deleted before a batch was made of it, and a batch leaves out only
\* what its pod could not decode: the detailed pipeline implements GroupOutbox
\* (server.go:47, notification.go:34-63).
THEOREM ImplementsOutbox == Spec => OutboxSpec
<1>1. ASSUME Inv, Inv', [Next]_vars PROVE [Outbox!Next]_(Outbox!vars)
  <2>1. ASSUME NEW r \in Requests, NEW f \in Formats, state[r] = "new", Accepted(r, f)
        PROVE  [Outbox!Next]_(Outbox!vars)
    BY <1>1, <2>1, AcceptIsAccept DEF Outbox!Next
  <2>2. ASSUME NEW p \in Pods, NEW b \in Batches, SendBatch(p, b)
        PROVE  [Outbox!Next]_(Outbox!vars)
    BY <1>1, <2>2, SendIsBatch DEF Outbox!Next
  <2>3. ASSUME NEW p \in Pods, DeleteSet(p) PROVE [Outbox!Next]_(Outbox!vars)
    BY <1>1, <2>3, DeleteIsDelete DEF Outbox!Next
  <2>4. CASE UNCHANGED <<job, from>> /\ ~(\E p \in Pods : DeleteSet(p))
    <3>1. gone' = gone
      <4>1. ASSUME NEW p \in Pods, NEW r \in Requests, ReadGroup(p, r) PROVE gone' = gone
        <5>1. PICK S \in SUBSET Group(r) :
                state' = [t \in Tasks |-> IF t \in S THEN "taken" ELSE state[t]]
          BY <4>1 DEF ReadGroup
        <5>2. \A s \in S : state[s] = "grouped" BY DEF Group
        <5>3. QED BY <5>1, <5>2 DEF gone, Tasks
      <4>2. ASSUME NEW S \in stale, Reclaim(S) PROVE gone' = gone
        BY <1>1, <4>2 DEF Reclaim, gone, Tasks, Inv, Owned
      <4>3. CASE GroupQuiet BY <4>3 DEF GroupQuiet, gone, Tasks
      <4>4. ASSUME NEW p \in Pods, NEW b \in Batches, SendBatch(p, b) PROVE gone' = gone
        BY <1>1, <4>4, TasksDiffer DEF SendBatch, SetState, gone, Inv, PipeType, Tasks
      <4>5. QED
        BY <1>1, <2>4, <4>1, <4>2, <4>3, <4>4, GroupCases DEF Inv, gone
    <3>2. QED BY <1>1, <2>4, <3>1, OutboxStutters
  <2>5. QED BY <1>1, <2>1, <2>2, <2>3, <2>4, JobCases DEF Inv
<1>2. QED BY <1>1, InitOutbox, InvSafe, PTL DEF Spec, OutboxSpec, Outbox!Spec

-----------------------------------------------------------------------------
(* Refinement of TaskQueue.                                                *)

done == {t \in Tasks : state[t] = "done"}
unwelcome == {t \in Tasks : state[t] = "archived" /\
                 \E f \in seen : Answer(job[t].type, job[t].payload, f) = "skip"}

LEMMA StatusFacts ==
  ASSUME NEW s \in States
  PROVE  /\ Status(s) \in Promised!Statuses
         /\ Status(s) = "done" <=> s = "done"
         /\ Status(s) = "absent" <=> s \in {"new", "refused", "duplicate"}
  BY DEF Status, States, Waiting, Final, Promised!Statuses

LEMMA ArchivedStays ==
  ASSUME Inv, [Next]_vars, NEW t \in Tasks, state[t] = "archived"
  PROVE  state'[t] = "archived"
<1> USE DEF Inv, PipeType
<1>1. ASSUME NEW r \in Requests, Enqueue(r) PROVE state'[t] = "archived"
  BY <1>1, EnqueueCases DEF Reject, Accepted, Accept, SetState
<1>2. ASSUME NEW u \in Tasks, Forward(u) \/ LockExpires(u) PROVE state'[t] = "archived"
  BY <1>2 DEF Forward, LockExpires, SetState
<1>3. ASSUME NEW u \in Tasks, NEW p \in Pods, Handle(p, u) PROVE state'[t] = "archived"
  BY <1>3 DEF Handle, Fail, SetState
<1>4. ASSUME NEW p \in Pods, NEW r \in Requests, ReadGroup(p, r) PROVE state'[t] = "archived"
  <2>1. PICK S \in SUBSET Group(r) :
          state' = [u \in Tasks |-> IF u \in S THEN "taken" ELSE state[u]]
    BY <1>4 DEF ReadGroup
  <2>2. t \notin S BY DEF Group
  <2>3. QED BY <2>1, <2>2
<1>5. ASSUME NEW p \in Pods, NEW b \in Batches, SendBatch(p, b) PROVE state'[t] = "archived"
  BY <1>5 DEF SendBatch, SetState
<1>6. ASSUME NEW p \in Pods, DeleteSet(p) PROVE state'[t] = "archived"
  BY <1>6 DEF DeleteSet, Owned
<1>7. ASSUME NEW p \in Pods, Abandon(p) \/ Restart(p) PROVE state'[t] = "archived"
  BY <1>7 DEF Abandon, Restart
<1>8. ASSUME NEW S \in stale, Reclaim(S) PROVE state'[t] = "archived"
  BY <1>8 DEF Reclaim, Owned
<1>9. CASE UNCHANGED vars BY <1>9 DEF vars
<1>10. QED
  BY <1>1, <1>2, <1>3, <1>4, <1>5, <1>6, <1>7, <1>8, <1>9 DEF Next, TaskStep, GroupStep

LEMMA UnwelcomeGrows ==
  ASSUME Inv, [Next]_vars
  PROVE  unwelcome \subseteq unwelcome' /\ unwelcome' \subseteq Tasks
<1>1. unwelcome' \subseteq Tasks BY DEF unwelcome, Tasks
<1>2. ASSUME NEW t \in unwelcome PROVE t \in unwelcome'
  <2>1. t \in Tasks /\ state[t] = "archived" BY DEF unwelcome
  <2>2. state'[t] = "archived" BY <2>1, ArchivedStays
  <2>3. job[t] # NoJob BY <2>1 DEF Inv, Known
  <2>4. job'[t] = job[t] /\ seen \subseteq seen' BY <2>1, <2>3, JobKept DEF Inv
  <2>5. t \in Tasks' BY <2>1 DEF Tasks
  <2>6. QED BY <2>2, <2>4, <2>5 DEF unwelcome
<1>3. QED BY <1>1, <1>2

\* The steps that neither accept, handle nor forward a task into another status, but for
\* those that are deleted.
LEMMA QueueUnmoved ==
  ASSUME Inv, Inv', [Next]_vars, UNCHANGED left,
         \A t \in Tasks : \/ Status(state'[t]) = Status(state[t])
                          \/ Status(state[t]) = "waiting" /\ state'[t] = "gone"
  PROVE  Promised!Next
<1>1. \A t \in Tasks : state[t] \in States /\ state'[t] \in States
  BY DEF Inv, PipeType, Tasks
<1>2. Status("gone") = "deleted" BY DEF Status, Waiting
<1>3. done' = done BY <1>1, <1>2, StatusFacts DEF done, Tasks
<1>4. \A t \in Tasks : Status(state'[t]) \in Promised!Statuses BY <1>1, StatusFacts
<1>5. Promised!Delete
  BY <1>2, <1>3, <1>4 DEF Promised!Delete, done, Tasks
<1>6. QED BY <1>5, UnwelcomeGrows DEF Promised!Next, unwelcome

LEMMA QueueAccepts ==
  ASSUME Inv, Inv', [Next]_vars, NEW t \in Tasks, state[t] = "new",
         NEW s \in {"scheduled", "pending", "grouped"}, state' = [state EXCEPT ![t] = s],
         NEW n \in Nat, left' = [left EXCEPT ![t] = n]
  PROVE  Promised!Next
<1>1. state \in [Tasks -> States] /\ left \in [Tasks -> Nat] BY DEF Inv, PipeType
<1>2. /\ Status(state[t]) = "absent" /\ Status(state'[t]) = "waiting"
      /\ \A u \in Tasks \ {t} : Status(state'[u]) = Status(state[u])
  BY <1>1 DEF Status, Waiting
<1>3. Promised!Moves(t, "absent", "waiting")
  BY <1>2 DEF Promised!Moves, Tasks
<1>4. left'[t] \in Nat /\ left' = [left EXCEPT ![t] = left'[t]] BY <1>1
<1>5. done' = done BY <1>1 DEF done, Tasks
<1>6. Promised!Accept(t) BY <1>3, <1>4, <1>5 DEF Promised!Accept, done
<1>7. QED BY <1>6, UnwelcomeGrows DEF Promised!Next, unwelcome

LEMMA QueueHandles ==
  ASSUME Inv, Inv', [Next]_vars, NEW p \in Pods, NEW t \in Tasks, Handle(p, t)
  PROVE  Promised!Next
<1> DEFINE answer == Answer(job[t].type, job[t].payload, format[p])
<1>1. /\ state \in [Tasks -> States] /\ left \in [Tasks -> Nat] /\ state[t] = "pending"
      /\ UNCHANGED <<job, seen>> /\ format[p] \in seen
  BY DEF Inv, PipeType, JobInv, Handle
<1>2. \/ answer = "ok" /\ SetState(t, "done") /\ UNCHANGED left
      \/ answer = "skip" /\ SetState(t, "archived") /\ UNCHANGED left
      \/ Fail(t)
  BY DEF Handle
<1> HIDE DEF answer
<1>3. Status(state[t]) = "waiting" BY <1>1 DEF Status, Waiting
<1>4. unwelcome \subseteq unwelcome' /\ unwelcome' \subseteq Tasks BY UnwelcomeGrows
<1>5. CASE SetState(t, "done") /\ UNCHANGED left
  <2>1. /\ Status(state'[t]) = "done"
        /\ \A u \in Tasks \ {t} : Status(state'[u]) = Status(state[u])
    BY <1>1, <1>5 DEF SetState, Status, Waiting
  <2>2. Promised!Moves(t, "waiting", "done") BY <1>3, <2>1 DEF Promised!Moves, Tasks
  <2>3. done' = done \cup {t} BY <1>1, <1>5 DEF SetState, done, Tasks
  <2>4. Promised!Acknowledge(t) BY <1>5, <2>2, <2>3 DEF Promised!Acknowledge, done
  <2>5. QED BY <1>4, <2>4 DEF Promised!Next, unwelcome
<1>6. ASSUME SetState(t, "archived"), UNCHANGED left, left[t] = 0 \/ answer = "skip"
      PROVE  Promised!Next
  <2>1. /\ Status(state'[t]) = "archived"
        /\ \A u \in Tasks \ {t} : Status(state'[u]) = Status(state[u])
    BY <1>1, <1>6 DEF SetState, Status, Waiting
  <2>2. Promised!Moves(t, "waiting", "archived") BY <1>3, <2>1 DEF Promised!Moves, Tasks
  <2>3. done' = done BY <1>1, <1>6 DEF SetState, done, Tasks
  <2>4. answer = "skip" => t \in unwelcome'
    BY <1>1, <1>6 DEF unwelcome, answer, SetState, Tasks
  <2>5. Promised!Archive(t)
    BY <1>6, <2>2, <2>3, <2>4 DEF Promised!Archive, done, unwelcome
  <2>6. QED BY <1>4, <2>5 DEF Promised!Next, unwelcome
<1>7. CASE Fail(t) /\ left[t] > 0
  <2>1. state' = [state EXCEPT ![t] = "retry"] /\ left' = [left EXCEPT ![t] = @ - 1]
    BY <1>7 DEF Fail, SetState
  <2>2. \A u \in Tasks : Status(state'[u]) = Status(state[u])
    BY <1>1, <1>3, <2>1 DEF Status, Waiting
  <2>3. done' = done BY <1>1, <2>1 DEF done, Tasks
  <2>4. Promised!Retry(t)
    BY <1>3, <1>7, <2>1, <2>2, <2>3 DEF Promised!Retry, done, Tasks
  <2>5. QED BY <1>4, <2>4 DEF Promised!Next, unwelcome
<1>8. CASE Fail(t) /\ ~(left[t] > 0)
  <2>1. left[t] = 0 BY <1>1, <1>8
  <2>2. SetState(t, "archived") /\ left' = [left EXCEPT ![t] = 0]
    BY <1>8, <2>1 DEF Fail, SetState
  <2>3. UNCHANGED left BY <1>1, <2>1, <2>2
  <2>4. QED BY <1>6, <2>1, <2>2, <2>3
<1>9. QED BY <1>2, <1>5, <1>6, <1>7, <1>8

LEMMA QueueInit == Init => Promised!Init
<1> SUFFICES ASSUME Init PROVE Promised!Init OBVIOUS
<1>1. \A t \in Tasks : state[t] = "new" /\ Status("new") = "absent"
  BY DEF Init, Status, Waiting
<1>2. left \in [Tasks -> Nat] BY DEF Init
<1>3. QED BY <1>1, <1>2 DEF Promised!Init

\* From the request to the end of its task, in groups and in batches, through every mixture
\* of formats: what TaskQueue promises of a task holds of each.  TaskLifecycle implements the
\* same specification in the middle of an attempt.
THEOREM ImplementsQueue == Spec => QueueSpec
<1>1. ASSUME Inv, Inv', [Next]_vars PROVE [Promised!Next]_(Promised!vars)
  <2> USE DEF Tasks
  <2>0. PipeType /\ Known /\ Owned /\ state \in [Tasks -> States] BY <1>1 DEF Inv, PipeType
  <2>1. ASSUME UNCHANGED <<state, left>> PROVE Promised!Next
    BY <1>1, <2>1, QueueUnmoved
  <2>2. ASSUME NEW r \in Requests, Enqueue(r) PROVE Promised!Next
    <3>1. state[r] = "new" BY <2>0, <2>2, EnqueueCases
    <3>2. ASSUME NEW why \in {"refused", "duplicate"}, Reject(r, why) PROVE Promised!Next
      <4>1. UNCHANGED left /\ \A t \in Tasks : Status(state'[t]) = Status(state[t])
        BY <2>0, <3>1, <3>2 DEF Reject, SetState, Status, Waiting
      <4>2. QED BY <1>1, <4>1, QueueUnmoved
    <3>3. ASSUME NEW f \in Formats, Accepted(r, f) PROVE Promised!Next
      <4>1. PICK s \in {"scheduled", "pending", "grouped"} : state' = [state EXCEPT ![r] = s]
        BY <3>3 DEF Accepted, Accept, SetState, Ready
      <4>2. left' = [left EXCEPT ![r] = Build(Req[r], f).retry]
            /\ Build(Req[r], f).retry \in Nat
        BY <3>3, BuiltType DEF Accepted, Accept
      <4>3. QED BY <1>1, <3>1, <4>1, <4>2, QueueAccepts
    <3>4. QED BY <2>0, <2>2, <3>2, <3>3, EnqueueCases
  <2>3. ASSUME NEW t \in Tasks, Forward(t) PROVE Promised!Next
    <3>1. UNCHANGED left /\ \A u \in Tasks : Status(state'[u]) = Status(state[u])
      BY <2>0, <2>3 DEF Forward, SetState, Ready, Status, Waiting
    <3>2. QED BY <1>1, <3>1, QueueUnmoved
  <2>4. ASSUME NEW p \in Pods, NEW r \in Requests, ReadGroup(p, r) PROVE Promised!Next
    <3>1. PICK S \in SUBSET Group(r) :
            state' = [t \in Tasks |-> IF t \in S THEN "taken" ELSE state[t]]
      BY <2>4 DEF ReadGroup
    <3>2. \A s \in S : state[s] = "grouped" BY DEF Group
    <3>3. UNCHANGED left /\ \A u \in Tasks : Status(state'[u]) = Status(state[u])
      BY <2>4, <3>1, <3>2 DEF ReadGroup, Status, Waiting
    <3>4. QED BY <1>1, <3>3, QueueUnmoved
  <2>5. ASSUME NEW p \in Pods, NEW b \in Batches, SendBatch(p, b) PROVE Promised!Next
    <3>1. /\ state[b] = "new" /\ state' = [state EXCEPT ![b] = "pending"]
          /\ left' = [left EXCEPT ![b] = Plain.retry] /\ Plain.retry \in Nat
      BY <2>5, ApiAssumption DEF SendBatch, SetState, Plain
    <3>2. QED BY <1>1, <3>1, QueueAccepts
  <2>6. ASSUME NEW p \in Pods, DeleteSet(p) PROVE Promised!Next
    <3>1. \A t \in taken[p] : state[t] = "taken" BY <2>0 DEF Owned
    <3>2. UNCHANGED left
          /\ \A t \in Tasks : \/ state'[t] = state[t]
                              \/ state[t] = "taken" /\ state'[t] = "gone"
      BY <2>6, <3>1 DEF DeleteSet
    <3>3. Status("taken") = "waiting" BY DEF Status, Waiting
    <3>4. QED BY <1>1, <3>2, <3>3, QueueUnmoved
  <2>7. ASSUME NEW S \in stale, Reclaim(S) PROVE Promised!Next
    <3>1. \A t \in S : state[t] = "taken" BY <2>0, <2>7 DEF Owned
    <3>2. UNCHANGED left
          /\ \A t \in Tasks : \/ state'[t] = state[t]
                              \/ state[t] = "taken" /\ state'[t] = "grouped"
      BY <2>7, <3>1 DEF Reclaim
    <3>3. Status("taken") = "waiting" /\ Status("grouped") = "waiting"
      BY DEF Status, Waiting
    <3>4. QED BY <1>1, <3>2, <3>3, QueueUnmoved
  <2>8. QED
    BY <1>1, <2>1, <2>2, <2>3, <2>4, <2>5, <2>6, <2>7, QueueHandles
       DEF Next, TaskStep, GroupStep, LockExpires, Abandon, Restart, vars
<1>2. QED BY <1>1, QueueInit, InvSafe, PTL DEF Spec, QueueSpec, Promised!Spec
=============================================================================
