---------------------------- MODULE EnqueueApi ----------------------------
(***************************************************************************)
(* How a request becomes a task: by the web API (internal/web/api.go), by  *)
(* the command line (cmd/enqueue.go) or by the scheduler                   *)
(* (buildPeriodicTask), each through the constructors of internal/tasks.   *)
(***************************************************************************)
EXTENDS PayloadCodec

CONSTANTS
    NoQueue,        \* a request that names no queue
    NoGroup,
    DefaultRetry    \* asynq's, 25

Constructed == {"email:deliver", "image:resize", "report:generate", "webhook:send",
                "notification:send"}

\* The command line also sends types it does not know, "image:crop" for one.
Types == Constructed \cup {"notification:batch", "image:crop", "unknown"}

Queues == {"critical", "default", "low", "unserved"}

ASSUME ApiAssumption ==
    DefaultRetry \in Nat /\ NoGroup \notin Int /\ NoQueue \notin Queues

\* What a request says.  "valid": the JSON of its payload fits the type; "raw": what that
\* JSON says when no constructor is called.  An entry of the scheduler has no delay and
\* no max_retry.
RequestType ==
    [by : {"web", "cli", "cron"}, type : Types, valid : BOOLEAN, text : Texts, num : Int,
     raw : Contents, queue : Queues \cup {NoQueue}, delayed : BOOLEAN, retry : Int,
     unique : BOOLEAN]

Jobs ==
    [type : Types, payload : Payloads, queue : Queues, delayed : BOOLEAN, retry : Nat,
     unique : BOOLEAN, group : Int \cup {NoGroup}]

\* The constructor each producer has for a type.
Constructs(r) ==
    r.type \in IF r.by = "cron" THEN {"report:generate", "email:deliver", "webhook:send"}
               ELSE Constructed

\* Without a constructor the command line passes the text on, the scheduler nothing.
PayloadOf(r, f) ==
    IF Constructs(r) THEN Marshal(f, Single(r.text, r.num))
    ELSE IF r.by = "cron" THEN Nil
    ELSE [enc |-> IF r.valid THEN "json" ELSE "garbage", content |-> r.raw]

\* asynq.NewTask without options, as asynq completes it.
Plain == [queue |-> "default", retry |-> DefaultRetry, unique |-> FALSE, grouped |-> FALSE]

EmailOptions == [Plain EXCEPT !.retry = 3]
ImageOptions == [Plain EXCEPT !.retry = 2]
ReportOptions == [Plain EXCEPT !.retry = 2]
WebhookOptions == [Plain EXCEPT !.retry = 5, !.unique = TRUE, !.queue = "critical"]
NotificationOptions == [Plain EXCEPT !.retry = 3, !.grouped = TRUE]

Options(r) ==
    CASE ~Constructs(r) -> Plain
      [] r.type = "email:deliver" -> EmailOptions
      [] r.type = "image:resize" -> ImageOptions
      [] r.type = "report:generate" -> ReportOptions
      [] r.type = "webhook:send" -> WebhookOptions
      [] OTHER -> NotificationOptions

\* Mutant of GroupKey: the key is made from the user id as Protobuf will carry it.
GroupKeyCut(r) == Int32(r.num)

\* fmt.Sprintf("user:%d", userID)
GroupKey(r) == r.num

\* A call names its queue only if it has one; an entry of the scheduler sets it always.
Names(r) == r.queue # NoQueue \/ r.by = "cron"

\* Mutant of WithOptions: a max_retry of the request is used whatever its sign.
WithOptionsUnchecked(r, o) ==
    [o EXCEPT !.queue = IF Names(r) THEN r.queue ELSE @,
              !.retry = IF r.retry # 0 THEN r.retry ELSE @,
              !.unique = @ \/ r.unique]

\* Mutant of WithOptions: the options of the call replace those of the constructor.
WithOptionsReplaced(r, o) ==
    [o EXCEPT !.queue = IF Names(r) THEN r.queue ELSE @,
              !.retry = IF r.retry > 0 THEN r.retry ELSE @,
              !.unique = r.unique]

\* The options of the call come after the constructor's and win.
WithOptions(r, o) ==
    [o EXCEPT !.queue = IF Names(r) THEN r.queue ELSE @,
              !.retry = IF r.retry > 0 THEN r.retry ELSE @,
              !.unique = @ \/ r.unique]

\* buildTaskFromRequest and buildCLITask give up on a payload that does not fit, the web
\* API on a type it does not know; asynq refuses a task whose queue has no name.
Refused(r) ==
    \/ IF Constructs(r) THEN r.by # "cron" /\ ~r.valid ELSE r.by = "web"
    \/ WithOptions(r, Options(r)).queue = NoQueue

\* The task a producer of format f makes of request r.
Build(r, f) ==
    LET o == WithOptions(r, Options(r))
    IN  [type |-> r.type, payload |-> PayloadOf(r, f), queue |-> o.queue,
         delayed |-> r.delayed, retry |-> o.retry, unique |-> o.unique,
         group |-> IF o.grouped THEN GroupKey(r) ELSE NoGroup]

\* The key of asynq.Unique.
UniqueKey(j) == <<j.queue, j.type, j.payload>>
=============================================================================
