---------------------------- MODULE AlertTransport ----------------------------
(***************************************************************************)
(* AlertPublisher._post_embed (app/services/alerts.py): what happens to an *)
(* alert that the alert path (module AlertPath) hands over.  It waits for  *)
(* the throttle, goes to Discord and then to Telegram, whichever are       *)
(* enabled, and is tried a second time when Telegram asks for patience.    *)
(* The alert path waits meanwhile: there is one post at a time.            *)
(*                                                                         *)
(* Time is discrete.  A sleep ends when it is due; a request is answered,  *)
(* fails or times out within ClientTimeout.  What was sent and not answered*)
(* is on the wire: the channel may still get it, or never.                 *)
(***************************************************************************)
EXTENDS Integers, FiniteSets

CONSTANTS SendGap,        \* send_gap_seconds
          ClientTimeout,  \* the longest a request of the HTTP client takes
          MaxRetryAfter,  \* _MAX_RETRY_AFTER
          Slack,          \* what is added to retry_after
          RetryAfters,    \* the waits that Telegram asks for
          MaxAlerts,      \* bound of the model: alerts handed over
          MaxTime         \* bound of the model: the clock stops here

ASSUME SendGapAssumption == SendGap \in Nat \ {0}
ASSUME TimesAssumption ==
  /\ {ClientTimeout, MaxRetryAfter, Slack, MaxAlerts, MaxTime} \subseteq Nat
  /\ SendGap <= MaxTime
ASSUME RetryAftersAssumption == RetryAfters \subseteq Nat

Transports == {"discord", "telegram"}

VARIABLES now,      \* the event loop's clock
          last,     \* _last_send_ts
          enabled,  \* the transports with credentials
          pc,       \* "idle", "throttle", "backoff", or the transport asked
          due,      \* when the sleep ends or the request has timed out
          alert,    \* the number of the alert in hand
          attempt,  \* _post_telegram's attempt
          began,    \* history: when _post_embed was called
          posted,   \* history: requests made
          broken,   \* history: where an exception left _post_embed, and which
          wire,     \* requests given up that may still arrive
          got       \* requests the channels received

callVars == <<pc, due, alert, attempt, began>>
channelVars == <<wire, got>>
vars == <<now, last, enabled, callVars, posted, broken, channelVars>>

\* The transport that is asked first.
First == IF "discord" \in enabled THEN "discord" ELSE "telegram"

Request == [to |-> pc, alert |-> alert, attempt |-> attempt]
-----------------------------------------------------------------------------
\* loop.time() counts from the start of the machine, _last_send_ts from zero.
Init ==
  /\ now \in 0..SendGap /\ last = 0
  /\ enabled \in SUBSET Transports
  /\ pc = "idle" /\ due = 0 /\ alert = 0 /\ attempt = 0 /\ began = 0
  /\ posted = {} /\ broken = {} /\ wire = {} /\ got = {}

Tick ==
  /\ now < MaxTime
  /\ pc # "idle" => now < due
  /\ now' = now + 1
  /\ UNCHANGED <<last, enabled, callVars, posted, broken, channelVars>>

\* client.post is called.
Send(to, a, n) ==
  /\ pc' = to
  /\ due' = now + ClientTimeout
  /\ alert' = a
  /\ attempt' = n
  /\ posted' = posted \cup {[to |-> to, alert |-> a, attempt |-> n, at |-> now]}

Finish ==
  /\ pc' = "idle" /\ due' = 0 /\ attempt' = 0 /\ began' = 0
  /\ UNCHANGED <<last, alert, posted>>

\* The alert is logged and nothing more.
PostNowhere ==
  /\ pc = "idle"
  /\ alert < MaxAlerts
  /\ enabled = {}
  /\ alert' = alert + 1
  /\ UNCHANGED <<now, last, enabled, pc, due, attempt, began, posted, broken,
                 channelVars>>

\* _await_throttle sleeps.
PostThrottled ==
  /\ pc = "idle"
  /\ alert < MaxAlerts
  /\ enabled # {}
  /\ now - last < SendGap
  /\ pc' = "throttle"
  /\ due' = last + SendGap
  /\ alert' = alert + 1
  /\ began' = now
  /\ UNCHANGED <<now, last, enabled, attempt, posted, broken, channelVars>>

\* The last send is long enough ago.
PostAtOnce ==
  /\ pc = "idle"
  /\ alert < MaxAlerts
  /\ enabled # {}
  /\ now - last >= SendGap
  /\ began' = now
  /\ last' = now
  /\ Send(First, alert + 1, 1)
  /\ UNCHANGED <<now, enabled, broken, channelVars>>

\* Mutant: the time is taken before the sleep.
ThrottleOver_StaleClock ==
  /\ pc = "throttle"
  /\ now = due
  /\ last' = began
  /\ Send(First, alert, 1)
  /\ UNCHANGED <<now, enabled, began, broken, channelVars>>

ThrottleOver ==
  /\ pc = "throttle"
  /\ now = due
  /\ last' = now
  /\ Send(First, alert, 1)
  /\ UNCHANGED <<now, enabled, began, broken, channelVars>>

\* Mutant: whatever went wrong with Discord ends the post.
Proceed_ErrorEnds == Finish

\* A request has its result, and the other transport follows, or nothing.
Proceed ==
  IF pc = "discord" /\ "telegram" \in enabled
    THEN Send("telegram", alert, 1) /\ UNCHANGED <<last, began>>
    ELSE Finish

Delivered ==
  /\ pc \in Transports
  /\ got' = got \cup {Request}
  /\ Proceed
  /\ UNCHANGED <<now, enabled, broken, wire>>

\* A status error, which is logged; of Telegram's 429 it is the second, or one
\* that asks for too much patience.
Refused ==
  /\ pc \in Transports
  /\ Proceed
  /\ UNCHANGED <<now, enabled, broken, channelVars>>

\* Mutant: a request that got no answer is tried again.
Unanswered_Retries ==
  /\ pc \in Transports
  /\ wire' = wire \cup {Request}
  /\ IF pc = "telegram" /\ attempt = 1
       THEN Send("telegram", alert, 2) /\ UNCHANGED <<last, began>>
       ELSE Proceed
  /\ UNCHANGED <<now, enabled, broken, got>>

\* Timeout or broken connection: an HTTPError as well.
Unanswered ==
  /\ pc \in Transports
  /\ wire' = wire \cup {Request}
  /\ Proceed
  /\ UNCHANGED <<now, enabled, broken, got>>

\* Mutant: any wait is accepted.
RateLimited_AnyWait(wait) ==
  /\ pc = "telegram"
  /\ attempt = 1
  /\ pc' = "backoff"
  /\ due' = now + wait + Slack
  /\ UNCHANGED <<now, last, enabled, alert, attempt, began, posted, broken,
                 channelVars>>

\* 429 on the first attempt, with a retry_after within the cap.
RateLimited(wait) ==
  /\ pc = "telegram"
  /\ attempt = 1
  /\ wait <= MaxRetryAfter
  /\ pc' = "backoff"
  /\ due' = now + wait + Slack
  /\ UNCHANGED <<now, last, enabled, alert, attempt, began, posted, broken,
                 channelVars>>

\* Mutant: the throttle window stays where it was.
BackoffOver_WindowStays ==
  /\ pc = "backoff"
  /\ now = due
  /\ Send("telegram", alert, 2)
  /\ UNCHANGED <<now, last, enabled, began, broken, channelVars>>

\* The throttle window slides.
BackoffOver ==
  /\ pc = "backoff"
  /\ now = due
  /\ last' = now
  /\ Send("telegram", alert, 2)
  /\ UNCHANGED <<now, enabled, began, broken, channelVars>>

\* An exception leaves _post_embed.
Breaks(why) ==
  /\ broken' = broken \cup {[alert |-> alert, during |-> pc, why |-> why]}
  /\ Finish

\* What is no HTTPError is not caught: the URL is invalid, and nothing is sent,
\* or a 429 has a body that is not the object _parse_retry_after expects.
Raises ==
  /\ pc \in Transports
  /\ Breaks("error")
  /\ UNCHANGED <<now, enabled, channelVars>>

\* The poll task is cancelled: at a sleep, or while a request is under way.
Cancelled ==
  /\ pc # "idle"
  /\ wire' = wire \cup (IF pc \in Transports THEN {Request} ELSE {})
  /\ Breaks("cancel")
  /\ UNCHANGED <<now, enabled, got>>

\* The channel gets what was given up long ago.
Arrives(r) ==
  /\ r \in wire
  /\ wire' = wire \ {r}
  /\ got' = got \cup {r}
  /\ UNCHANGED <<now, last, enabled, callVars, posted, broken>>

Next ==
  \/ Tick
  \/ PostNowhere \/ PostThrottled \/ PostAtOnce
  \/ ThrottleOver \/ BackoffOver
  \/ Delivered \/ Refused \/ Unanswered \/ Raises \/ Cancelled
  \/ \E wait \in RetryAfters : RateLimited(wait)
  \/ \E r \in wire : Arrives(r)

Spec == Init /\ [][Next]_vars
-----------------------------------------------------------------------------
(* Properties *)

\* Every variable has its type; what the channels have or may get is about an
\* alert that was handed over, and to an enabled transport.
TypeOK ==
  /\ now \in 0..MaxTime /\ last \in 0..now
  /\ enabled \subseteq Transports
  /\ pc \in {"idle", "throttle", "backoff"} \cup enabled
  /\ pc = "backoff" => "telegram" \in enabled
  /\ due \in Nat
  /\ alert \in 0..MaxAlerts /\ (pc # "idle" => alert > 0 /\ enabled # {})
  /\ attempt \in 0..2 /\ (pc \in Transports => attempt > 0)
  /\ began \in 0..now
  /\ broken \subseteq [alert : 1..alert, why : {"error", "cancel"},
                       during : {"throttle", "backoff"} \cup enabled]
  /\ posted \subseteq [to : enabled, alert : 1..alert, attempt : 1..2, at : 0..now]
  /\ wire \cup got \subseteq [to : enabled, alert : 1..alert, attempt : 1..2]

\* A channel sees an alert at most once: the second attempt follows a refusal
\* only, never a request that may have been received.
NoDuplicateAlert ==
  \A r, s \in got \cup wire :
     (r.to = s.to /\ r.alert = s.alert) => r.attempt = s.attempt

Done(a) == a < alert \/ pc = "idle"
AskedAbout(a, t) == \E p \in posted : p.alert = a /\ p.to = t

\* Of two enabled transports neither is kept from an alert by what the other
\* one answers, or by its silence: an alert that is done was sent to each,
\* unless an exception left _post_embed before it was that one's turn.
AnswersDoNotBlock ==
  \A a \in 1..alert : \A t \in enabled :
     (Done(a) /\ ~ AskedAbout(a, t)) =>
        \E b \in broken : b.alert = a /\ b.during \in {"throttle", First} \ {t}

\* "Errors on one transport never block the other": an alert that is done, and
\* whose post was not cancelled, was sent to every enabled transport.
ErrorsDoNotBlock ==
  \A a \in 1..alert : \A t \in enabled :
     (Done(a) /\ ~ AskedAbout(a, t)) =>
        \E b \in broken : b.alert = a /\ b.why = "cancel"

\* Requests about different alerts to the transport that is asked first, which
\* is Telegram when Discord is disabled, are at least the send gap apart, the
\* second attempts included.
GapKept ==
  \A p, q \in posted :
     (p.to = First /\ q.to = First /\ p.alert < q.alert) => q.at - p.at >= SendGap

\* The poll cycle is not held up for long: however the channels behave, one
\* alert costs at most the gap, a request to each transport, and one accepted
\* wait with a second request.
PostIsBounded ==
  pc # "idle" =>
    now - began <= SendGap + 3 * ClientTimeout + MaxRetryAfter + Slack
=============================================================================
