----------------------------- MODULE MCPipeline -----------------------------
(***************************************************************************)
(* TaskPipeline on a small instance: two pods, and a choice of requests    *)
(* that covers each producer, type and option.  With Half = 4 an "int32"   *)
(* holds -4 .. 3, and 9 becomes 1.                                         *)
(***************************************************************************)
EXTENDS TaskPipeline, TLC

CONSTANTS p1, p2

MCTexts == {"", "hi", "yo", "hook", "mail"}

Web1(type, text, n) ==
    [by |-> "web", type |-> type, valid |-> TRUE, text |-> text, num |-> n,
     raw |-> Single("", 0), queue |-> NoQueue, delayed |-> FALSE, retry |-> 1,
     unique |-> FALSE]

Note(text, n) == Web1("notification:send", text, n)
Hook(n) == Web1("webhook:send", "hook", n)
Mail == Web1("email:deliver", "mail", 0)

\* Of the two lines of this batch only one has a user.
Uneven == [Lines([m \in {"hi"} |-> 1], 2) EXCEPT !.texts = {"hi", "yo"}]

Examples ==
    [hi      |-> Note("hi", 1),
     yo      |-> [Note("yo", 1) EXCEPT !.delayed = TRUE],
     big     |-> [Note("mail", 9) EXCEPT !.by = "cli"],
     hook    |-> Hook(1),
     again   |-> [Hook(1) EXCEPT !.by = "cron", !.queue = "critical", !.retry = 0,
                             !.unique = TRUE],
     fails   |-> [Hook(-1) EXCEPT !.queue = "low"],
     mail    |-> [Mail EXCEPT !.retry = -1, !.queue = "unserved"],
     misfit  |-> [Mail EXCEPT !.valid = FALSE],
     nil     |-> [Web1("image:resize", "mail", 2) EXCEPT !.by = "cron", !.queue = "low",
                                                  !.retry = 0],
     nameless |-> [Hook(2) EXCEPT !.by = "cron", !.retry = 0],
     junk    |-> [Web1("unknown", "mail", 2) EXCEPT !.by = "cli", !.valid = FALSE],
     batch   |-> [Web1("notification:batch", "mail", 2) EXCEPT !.by = "cli", !.raw = Uneven]]

RequestNames == DOMAIN Examples

\* TLC evaluates Examples and RequestNames once, but what a constant stands for each time.
MCReq == Examples
MCRequests == RequestNames
=============================================================================
