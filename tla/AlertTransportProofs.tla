------------------------ MODULE AlertTransportProofs ------------------------
(***************************************************************************)
(* Proofs about the delivery of alerts, for every gap, timeout, cap and    *)
(* wait.                                                                   *)
(***************************************************************************)
EXTENDS AlertTransport, TLAPS

\* While a transport is asked, or waits for its second attempt, nothing of the
\* alert in hand has reached it or may still reach it.
NothingYet ==
  pc # "idle" =>
    \A r \in wire \cup got :
      r.alert = alert => r.to = "discord" /\ pc \in {"telegram", "backoff"}

\* The transports that the post of the alert in hand is past, or at, were asked.
Asked ==
  /\ pc \in Transports => \E p \in posted : p.alert = alert /\ p.to = pc
  /\ pc \in {"telegram", "backoff"} =>
       /\ \E p \in posted : p.alert = alert /\ p.to = "telegram"
       /\ "discord" \in enabled => \E p \in posted : p.alert = alert /\ p.to = "discord"

\* The throttle's time is that of the last request to the first transport.
Window ==
  /\ \A p \in posted : p.to = First => p.at <= last
  /\ pc = "throttle" =>
       /\ due = last + SendGap
       /\ \A p \in posted : p.alert < alert

\* When the sleep or the request at hand ends at the latest.
Deadline ==
  pc # "idle" =>
    LET asked == began + SendGap
        backoff == asked + 2 * ClientTimeout + MaxRetryAfter + Slack
    IN /\ now <= due
       /\ last <= now
       /\ pc = "throttle" => due <= asked
       /\ pc = "discord" => due <= asked + ClientTimeout
       /\ pc = "telegram" /\ attempt = 1 => due <= asked + 2 * ClientTimeout
       /\ pc = "backoff" => due <= backoff
       /\ pc = "telegram" => due <= backoff + ClientTimeout
-----------------------------------------------------------------------------
LEMMA Numbers ==
  /\ SendGap \in Nat \ {0} /\ ClientTimeout \in Nat /\ MaxRetryAfter \in Nat
  /\ Slack \in Nat /\ MaxAlerts \in Nat /\ MaxTime \in Nat /\ SendGap <= MaxTime
  /\ RetryAfters \subseteq Nat
BY SendGapAssumption, TimesAssumption, RetryAftersAssumption

LEMMA FirstEnabled ==
  ASSUME TypeOK, enabled # {}
  PROVE  First \in enabled /\ First \in Transports
BY DEF TypeOK, First, Transports
-----------------------------------------------------------------------------
\* A request that is made is remembered with those before it.
LEMMA SendAsks ==
  ASSUME NEW to, NEW a, NEW n, Send(to, a, n)
  PROVE  posted \subseteq posted' /\ \E p \in posted' : p.alert = a /\ p.to = to
<1>1. [to |-> to, alert |-> a, attempt |-> n, at |-> now] \in posted'
  BY DEF Send
<1> QED
  BY <1>1 DEF Send

\* The types are kept.
LEMMA TypeStep == TypeOK /\ [Next]_vars => TypeOK'
<1> SUFFICES ASSUME TypeOK, [Next]_vars PROVE TypeOK'
  OBVIOUS
<1> USE Numbers, FirstEnabled DEF TypeOK, Transports
<1>1. ASSUME Tick PROVE TypeOK'
  BY <1>1 DEF Tick, callVars, channelVars
<1>2. ASSUME PostNowhere PROVE TypeOK'
  BY <1>2 DEF PostNowhere, channelVars
<1>3. ASSUME PostThrottled PROVE TypeOK'
  BY <1>3 DEF PostThrottled, channelVars
<1>4. ASSUME PostAtOnce PROVE TypeOK'
  BY <1>4 DEF PostAtOnce, Send, channelVars
<1>5. ASSUME ThrottleOver PROVE TypeOK'
  BY <1>5 DEF ThrottleOver, Send, channelVars
<1>6. ASSUME BackoffOver PROVE TypeOK'
  BY <1>6 DEF BackoffOver, Send, channelVars
<1>7. ASSUME Delivered PROVE TypeOK'
  BY <1>7 DEF Delivered, Proceed, Send, Finish, Request
<1>8. ASSUME Refused PROVE TypeOK'
  BY <1>8 DEF Refused, Proceed, Send, Finish, channelVars
<1>9. ASSUME Unanswered PROVE TypeOK'
  BY <1>9 DEF Unanswered, Proceed, Send, Finish, Request
<1>10. ASSUME Raises PROVE TypeOK'
  BY <1>10 DEF Raises, Breaks, Finish, channelVars
<1>14. ASSUME Cancelled PROVE TypeOK'
  BY <1>14 DEF Cancelled, Breaks, Finish, Request
<1>11. ASSUME NEW wait \in RetryAfters, RateLimited(wait) PROVE TypeOK'
  BY <1>11 DEF RateLimited, channelVars
<1>12. ASSUME NEW r \in wire, Arrives(r) PROVE TypeOK'
  BY <1>12 DEF Arrives, callVars
<1>13. CASE UNCHANGED vars
  BY <1>13 DEF vars, callVars, channelVars
<1> QED
  BY <1>1, <1>2, <1>3, <1>4, <1>5, <1>6, <1>7, <1>8, <1>9, <1>10, <1>11, <1>12,
      <1>13, <1>14 DEF Next

\* A request is about to be made to a transport that has nothing of its alert.
LEMMA NothingYetStep == TypeOK /\ NothingYet /\ [Next]_vars => NothingYet'
<1> SUFFICES ASSUME TypeOK, NothingYet, [Next]_vars PROVE NothingYet'
  OBVIOUS
<1> USE Numbers DEF TypeOK, NothingYet, Transports, First
<1>1. ASSUME Tick PROVE NothingYet'
  BY <1>1 DEF Tick, callVars, channelVars
<1>2. ASSUME PostNowhere PROVE NothingYet'
  BY <1>2 DEF PostNowhere, channelVars
<1>3. ASSUME PostThrottled PROVE NothingYet'
  BY <1>3 DEF PostThrottled, channelVars
<1>4. ASSUME PostAtOnce PROVE NothingYet'
  BY <1>4 DEF PostAtOnce, Send, channelVars
<1>5. ASSUME ThrottleOver PROVE NothingYet'
  BY <1>5 DEF ThrottleOver, Send, channelVars
<1>6. ASSUME BackoffOver PROVE NothingYet'
  BY <1>6 DEF BackoffOver, Send, channelVars
<1>7. ASSUME Delivered PROVE NothingYet'
  BY <1>7 DEF Delivered, Proceed, Send, Finish, Request
<1>8. ASSUME Refused PROVE NothingYet'
  BY <1>8 DEF Refused, Proceed, Send, Finish, channelVars
<1>9. ASSUME Unanswered PROVE NothingYet'
  BY <1>9 DEF Unanswered, Proceed, Send, Finish, Request
<1>10. ASSUME Raises PROVE NothingYet'
  BY <1>10 DEF Raises, Breaks, Finish, channelVars
<1>14. ASSUME Cancelled PROVE NothingYet'
  BY <1>14 DEF Cancelled, Breaks, Finish, Request
<1>11. ASSUME NEW wait \in RetryAfters, RateLimited(wait) PROVE NothingYet'
  BY <1>11 DEF RateLimited, channelVars
<1>12. ASSUME NEW r \in wire, Arrives(r) PROVE NothingYet'
  BY <1>12 DEF Arrives, callVars
<1>13. CASE UNCHANGED vars
  BY <1>13 DEF vars, callVars, channelVars
<1> QED
  BY <1>1, <1>2, <1>3, <1>4, <1>5, <1>6, <1>7, <1>8, <1>9, <1>10, <1>11, <1>12,
      <1>13, <1>14 DEF Next

LEMMA ProceedAsks == TypeOK /\ Asked /\ Proceed /\ enabled' = enabled => Asked'
<1> SUFFICES ASSUME TypeOK, Asked, Proceed, enabled' = enabled PROVE Asked'
  OBVIOUS
<1>1. CASE pc = "discord" /\ "telegram" \in enabled
  <2>1. posted \subseteq posted' /\ \E p \in posted' : p.alert = alert /\ p.to = "telegram"
    BY <1>1, SendAsks DEF Proceed
  <2> QED
    BY <1>1, <2>1 DEF Proceed, Send, TypeOK, Asked, Transports
<1>2. CASE ~ (pc = "discord" /\ "telegram" \in enabled)
  BY <1>2 DEF Proceed, Finish, Asked, Transports
<1> QED
  BY <1>1, <1>2

\* A post goes from transport to transport and skips none.
LEMMA AskedStep == TypeOK /\ Asked /\ [Next]_vars => Asked'
<1> SUFFICES ASSUME TypeOK, Asked, [Next]_vars PROVE Asked'
  OBVIOUS
<1> USE Numbers DEF TypeOK, Asked, Transports, First
<1>1. ASSUME Tick PROVE Asked'
  BY <1>1 DEF Tick, callVars, channelVars
<1>2. ASSUME PostNowhere PROVE Asked'
  BY <1>2 DEF PostNowhere, channelVars
<1>3. ASSUME PostThrottled PROVE Asked'
  BY <1>3 DEF PostThrottled, channelVars
<1>4. ASSUME PostAtOnce PROVE Asked'
  <2>1. posted \subseteq posted' /\ \E p \in posted' : p.alert = alert + 1 /\ p.to = First
    BY <1>4, SendAsks DEF PostAtOnce
  <2> QED
    BY <1>4, <2>1, FirstEnabled DEF PostAtOnce, Send, channelVars
<1>5. ASSUME ThrottleOver PROVE Asked'
  <2>1. posted \subseteq posted' /\ \E p \in posted' : p.alert = alert /\ p.to = First
    BY <1>5, SendAsks DEF ThrottleOver
  <2> QED
    BY <1>5, <2>1, FirstEnabled DEF ThrottleOver, Send, channelVars
<1>6. ASSUME BackoffOver PROVE Asked'
  <2>1. posted \subseteq posted' /\ \E p \in posted' : p.alert = alert /\ p.to = "telegram"
    BY <1>6, SendAsks DEF BackoffOver
  <2> QED
    BY <1>6, <2>1, FirstEnabled DEF BackoffOver, Send, channelVars
<1>7. ASSUME Delivered PROVE Asked'
  BY <1>7, ProceedAsks DEF Delivered
<1>8. ASSUME Refused PROVE Asked'
  BY <1>8, ProceedAsks DEF Refused
<1>9. ASSUME Unanswered PROVE Asked'
  BY <1>9, ProceedAsks DEF Unanswered
<1>10. ASSUME Raises PROVE Asked'
  BY <1>10 DEF Raises, Breaks, Finish, channelVars
<1>14. ASSUME Cancelled PROVE Asked'
  BY <1>14 DEF Cancelled, Breaks, Finish, Request
<1>11. ASSUME NEW wait \in RetryAfters, RateLimited(wait) PROVE Asked'
  BY <1>11 DEF RateLimited, channelVars
<1>12. ASSUME NEW r \in wire, Arrives(r) PROVE Asked'
  BY <1>12 DEF Arrives, callVars
<1>13. CASE UNCHANGED vars
  BY <1>13 DEF vars, callVars, channelVars
<1> QED
  BY <1>1, <1>2, <1>3, <1>4, <1>5, <1>6, <1>7, <1>8, <1>9, <1>10, <1>11, <1>12,
      <1>13, <1>14 DEF Next

\* The throttle's time moves with every request it is to space.
LEMMA WindowStep == TypeOK /\ Window /\ [Next]_vars => Window'
<1> SUFFICES ASSUME TypeOK, Window, [Next]_vars PROVE Window'
  OBVIOUS
<1> USE Numbers DEF TypeOK, Window, Transports, First
<1>1. ASSUME Tick PROVE Window'
  BY <1>1 DEF Tick, callVars, channelVars
<1>2. ASSUME PostNowhere PROVE Window'
  BY <1>2 DEF PostNowhere, channelVars
<1>3. ASSUME PostThrottled PROVE Window'
  BY <1>3 DEF PostThrottled, channelVars
<1>4. ASSUME PostAtOnce PROVE Window'
  BY <1>4 DEF PostAtOnce, Send, channelVars
<1>5. ASSUME ThrottleOver PROVE Window'
  BY <1>5 DEF ThrottleOver, Send, channelVars
<1>6. ASSUME BackoffOver PROVE Window'
  BY <1>6 DEF BackoffOver, Send, channelVars
<1>7. ASSUME Delivered PROVE Window'
  BY <1>7 DEF Delivered, Proceed, Send, Finish, Request
<1>8. ASSUME Refused PROVE Window'
  BY <1>8 DEF Refused, Proceed, Send, Finish, channelVars
<1>9. ASSUME Unanswered PROVE Window'
  BY <1>9 DEF Unanswered, Proceed, Send, Finish, Request
<1>10. ASSUME Raises PROVE Window'
  BY <1>10 DEF Raises, Breaks, Finish, channelVars
<1>14. ASSUME Cancelled PROVE Window'
  BY <1>14 DEF Cancelled, Breaks, Finish, Request
<1>11. ASSUME NEW wait \in RetryAfters, RateLimited(wait) PROVE Window'
  BY <1>11 DEF RateLimited, channelVars
<1>12. ASSUME NEW r \in wire, Arrives(r) PROVE Window'
  BY <1>12 DEF Arrives, callVars
<1>13. CASE UNCHANGED vars
  BY <1>13 DEF vars, callVars, channelVars
<1> QED
  BY <1>1, <1>2, <1>3, <1>4, <1>5, <1>6, <1>7, <1>8, <1>9, <1>10, <1>11, <1>12,
      <1>13, <1>14 DEF Next

\* Every phase of a post adds its own time at most.
LEMMA DeadlineStep == TypeOK /\ Deadline /\ [Next]_vars => Deadline'
<1> SUFFICES ASSUME TypeOK, Deadline, [Next]_vars PROVE Deadline'
  OBVIOUS
<1> USE Numbers DEF TypeOK, Deadline, Transports, First
<1>1. ASSUME Tick PROVE Deadline'
  BY <1>1 DEF Tick, callVars, channelVars
<1>2. ASSUME PostNowhere PROVE Deadline'
  BY <1>2 DEF PostNowhere, channelVars
<1>3. ASSUME PostThrottled PROVE Deadline'
  BY <1>3 DEF PostThrottled, channelVars
<1>4. ASSUME PostAtOnce PROVE Deadline'
  BY <1>4 DEF PostAtOnce, Send, channelVars
<1>5. ASSUME ThrottleOver PROVE Deadline'
  BY <1>5 DEF ThrottleOver, Send, channelVars
<1>6. ASSUME BackoffOver PROVE Deadline'
  BY <1>6 DEF BackoffOver, Send, channelVars
<1>7. ASSUME Delivered PROVE Deadline'
  BY <1>7 DEF Delivered, Proceed, Send, Finish, Request
<1>8. ASSUME Refused PROVE Deadline'
  BY <1>8 DEF Refused, Proceed, Send, Finish, channelVars
<1>9. ASSUME Unanswered PROVE Deadline'
  BY <1>9 DEF Unanswered, Proceed, Send, Finish, Request
<1>10. ASSUME Raises PROVE Deadline'
  BY <1>10 DEF Raises, Breaks, Finish, channelVars
<1>14. ASSUME Cancelled PROVE Deadline'
  BY <1>14 DEF Cancelled, Breaks, Finish, Request
<1>11. ASSUME NEW wait \in RetryAfters, RateLimited(wait) PROVE Deadline'
  BY <1>11 DEF RateLimited, channelVars
<1>12. ASSUME NEW r \in wire, Arrives(r) PROVE Deadline'
  BY <1>12 DEF Arrives, callVars
<1>13. CASE UNCHANGED vars
  BY <1>13 DEF vars, callVars, channelVars
<1> QED
  BY <1>1, <1>2, <1>3, <1>4, <1>5, <1>6, <1>7, <1>8, <1>9, <1>10, <1>11, <1>12,
      <1>13, <1>14 DEF Next

-----------------------------------------------------------------------------
Inductive == TypeOK /\ NothingYet /\ Asked /\ Window /\ Deadline

LEMMA InductiveInvariant == Spec => []Inductive
<1>1. Init => Inductive
  BY Numbers
    DEF Init, Inductive, TypeOK, NothingYet, Asked, Window, Deadline, Transports
<1>2. Inductive /\ [Next]_vars => Inductive'
  BY TypeStep, NothingYetStep, AskedStep, WindowStep, DeadlineStep DEF Inductive
<1> QED
  BY <1>1, <1>2, PTL DEF Spec

\* The delivery keeps its types, for every setting of the publisher.
THEOREM TypeCorrect == Spec => []TypeOK
<1>1. Inductive => TypeOK
  BY DEF Inductive
<1> QED
  BY <1>1, InductiveInvariant, PTL

\* However long the channels take, _post_embed returns in time: PostIsBounded
\* always holds.
THEOREM PostsEndInTime == Spec => []PostIsBounded
<1>1. Inductive => PostIsBounded
  BY Numbers DEF Inductive, TypeOK, Deadline, PostIsBounded, Transports
<1> QED
  BY <1>1, InductiveInvariant, PTL

\* No alert reaches a channel twice: NoDuplicateAlert always holds.
THEOREM NoTransportTwice == Spec => []NoDuplicateAlert
<1>1. Init => NoDuplicateAlert
  BY Numbers DEF Init, NoDuplicateAlert
<1>2. Inductive /\ Inductive' /\ NoDuplicateAlert /\ [Next]_vars => NoDuplicateAlert'
  <2> SUFFICES ASSUME Inductive, Inductive', NoDuplicateAlert, [Next]_vars
        PROVE NoDuplicateAlert'
    OBVIOUS
  <2> USE Numbers DEF NoDuplicateAlert, Inductive, TypeOK, NothingYet, Transports
  <2>1. ASSUME Tick PROVE NoDuplicateAlert'
    BY <2>1 DEF Tick, callVars, channelVars
  <2>2. ASSUME PostNowhere PROVE NoDuplicateAlert'
    BY <2>2 DEF PostNowhere, channelVars
  <2>3. ASSUME PostThrottled PROVE NoDuplicateAlert'
    BY <2>3 DEF PostThrottled, channelVars
  <2>4. ASSUME PostAtOnce PROVE NoDuplicateAlert'
    BY <2>4 DEF PostAtOnce, Send, channelVars
  <2>5. ASSUME ThrottleOver PROVE NoDuplicateAlert'
    BY <2>5 DEF ThrottleOver, Send, channelVars
  <2>6. ASSUME BackoffOver PROVE NoDuplicateAlert'
    BY <2>6 DEF BackoffOver, Send, channelVars
  <2>7. ASSUME Delivered PROVE NoDuplicateAlert'
    BY <2>7 DEF Delivered, Proceed, Send, Finish, Request
  <2>8. ASSUME Refused PROVE NoDuplicateAlert'
    BY <2>8 DEF Refused, Proceed, Send, Finish, channelVars
  <2>9. ASSUME Unanswered PROVE NoDuplicateAlert'
    BY <2>9 DEF Unanswered, Proceed, Send, Finish, Request
  <2>10. ASSUME Raises PROVE NoDuplicateAlert'
    BY <2>10 DEF Raises, Breaks, Finish, channelVars
  <2>14. ASSUME Cancelled PROVE NoDuplicateAlert'
    BY <2>14 DEF Cancelled, Breaks, Finish, Request
  <2>11. ASSUME NEW wait \in RetryAfters, RateLimited(wait) PROVE NoDuplicateAlert'
    BY <2>11 DEF RateLimited, channelVars
  <2>12. ASSUME NEW r \in wire, Arrives(r) PROVE NoDuplicateAlert'
    BY <2>12 DEF Arrives, callVars
  <2>13. CASE UNCHANGED vars
    BY <2>13 DEF vars, callVars, channelVars
  <2> QED
    BY <2>1, <2>2, <2>3, <2>4, <2>5, <2>6, <2>7, <2>8, <2>9, <2>10, <2>11, <2>12,
        <2>13, <2>14 DEF Next
<1> QED
  BY <1>1, <1>2, InductiveInvariant, PTL DEF Spec

\* A post that an exception ends left out what it had not come to.
LEMMA BreakIsRemembered ==
  ASSUME TypeOK, Asked, AnswersDoNotBlock, pc # "idle", NEW why, Breaks(why),
         enabled' = enabled
  PROVE  AnswersDoNotBlock'
<1> DEFINE new == [alert |-> alert, during |-> pc, why |-> why]
<1>1. /\ alert' = alert /\ posted' = posted /\ broken' = broken \cup {new}
      /\ First' = First
  BY DEF Breaks, Finish, First
<1>2. ASSUME NEW a \in 1..alert, NEW t \in enabled, ~ AskedAbout(a, t)
      PROVE  \E b \in broken' : b.alert = a /\ b.during \in {"throttle", First} \ {t}
  <2>1. CASE \E b \in broken : b.alert = a /\ b.during \in {"throttle", First} \ {t}
    BY <1>1, <2>1
  <2>2. CASE ~ \E b \in broken : b.alert = a /\ b.during \in {"throttle", First} \ {t}
    <3>1. a = alert
      BY <1>2, <2>2 DEF AnswersDoNotBlock, Done, TypeOK
    <3>2. pc \in {"throttle", First} \ {t}
      BY <1>2, <3>1 DEF Asked, AskedAbout, TypeOK, First, Transports
    <3>3. new \in broken' /\ new.alert = a /\ new.during = pc
      BY <1>1, <3>1
    <3> QED
      BY <3>2, <3>3
  <2> QED
    BY <2>1, <2>2
<1>3. \A a, t : AskedAbout(a, t)' <=> AskedAbout(a, t)
  BY <1>1 DEF AskedAbout
<1> QED
  BY <1>1, <1>2, <1>3 DEF AnswersDoNotBlock

\* No answer of one transport keeps an alert from the other, only an exception
\* does (alerts.py:286-346): AnswersDoNotBlock always holds.
THEOREM AnswersBlockNothing == Spec => []AnswersDoNotBlock
<1>1. Init => AnswersDoNotBlock
  BY Numbers DEF Init, AnswersDoNotBlock, Done
<1>2. Inductive /\ Inductive' /\ AnswersDoNotBlock /\ [Next]_vars => AnswersDoNotBlock'
  <2> SUFFICES ASSUME Inductive, Inductive', AnswersDoNotBlock, [Next]_vars
        PROVE AnswersDoNotBlock'
    OBVIOUS
  <2> USE Numbers DEF AnswersDoNotBlock, Done, AskedAbout, Inductive, TypeOK, Asked, Transports, First
  <2>1. ASSUME Tick PROVE AnswersDoNotBlock'
    BY <2>1 DEF Tick, callVars, channelVars
  <2>2. ASSUME PostNowhere PROVE AnswersDoNotBlock'
    BY <2>2 DEF PostNowhere, channelVars
  <2>3. ASSUME PostThrottled PROVE AnswersDoNotBlock'
    BY <2>3 DEF PostThrottled, channelVars
  <2>4. ASSUME PostAtOnce PROVE AnswersDoNotBlock'
    BY <2>4 DEF PostAtOnce, Send, channelVars
  <2>5. ASSUME ThrottleOver PROVE AnswersDoNotBlock'
    BY <2>5 DEF ThrottleOver, Send, channelVars
  <2>6. ASSUME BackoffOver PROVE AnswersDoNotBlock'
    BY <2>6 DEF BackoffOver, Send, channelVars
  <2>7. ASSUME Delivered PROVE AnswersDoNotBlock'
    BY <2>7 DEF Delivered, Proceed, Send, Finish, Request
  <2>8. ASSUME Refused PROVE AnswersDoNotBlock'
    BY <2>8 DEF Refused, Proceed, Send, Finish, channelVars
  <2>9. ASSUME Unanswered PROVE AnswersDoNotBlock'
    BY <2>9 DEF Unanswered, Proceed, Send, Finish, Request
  <2>10. ASSUME Raises PROVE AnswersDoNotBlock'
    BY <2>10, BreakIsRemembered DEF Raises, Transports
  <2>14. ASSUME Cancelled PROVE AnswersDoNotBlock'
    BY <2>14, BreakIsRemembered DEF Cancelled
  <2>11. ASSUME NEW wait \in RetryAfters, RateLimited(wait) PROVE AnswersDoNotBlock'
    BY <2>11 DEF RateLimited, channelVars
  <2>12. ASSUME NEW r \in wire, Arrives(r) PROVE AnswersDoNotBlock'
    BY <2>12 DEF Arrives, callVars
  <2>13. CASE UNCHANGED vars
    BY <2>13 DEF vars, callVars, channelVars
  <2> QED
    BY <2>1, <2>2, <2>3, <2>4, <2>5, <2>6, <2>7, <2>8, <2>9, <2>10, <2>11, <2>12,
        <2>13, <2>14 DEF Next
<1> QED
  BY <1>1, <1>2, InductiveInvariant, PTL DEF Spec

\* The throttle keeps the sends apart: GapKept always holds.
THEOREM SendsAreSpaced == Spec => []GapKept
<1>1. Init => GapKept
  BY Numbers DEF Init, GapKept
<1>2. Inductive /\ Inductive' /\ GapKept /\ [Next]_vars => GapKept'
  <2> SUFFICES ASSUME Inductive, Inductive', GapKept, [Next]_vars PROVE GapKept'
    OBVIOUS
  <2> USE Numbers DEF GapKept, Inductive, TypeOK, Asked, Window, Transports, First
  <2>1. ASSUME Tick PROVE GapKept'
    BY <2>1 DEF Tick, callVars, channelVars
  <2>2. ASSUME PostNowhere PROVE GapKept'
    BY <2>2 DEF PostNowhere, channelVars
  <2>3. ASSUME PostThrottled PROVE GapKept'
    BY <2>3 DEF PostThrottled, channelVars
  <2>4. ASSUME PostAtOnce PROVE GapKept'
    BY <2>4 DEF PostAtOnce, Send, channelVars
  <2>5. ASSUME ThrottleOver PROVE GapKept'
    BY <2>5 DEF ThrottleOver, Send, channelVars
  <2>6. ASSUME BackoffOver PROVE GapKept'
    BY <2>6 DEF BackoffOver, Send, channelVars
  <2>7. ASSUME Delivered PROVE GapKept'
    BY <2>7 DEF Delivered, Proceed, Send, Finish, Request
  <2>8. ASSUME Refused PROVE GapKept'
    BY <2>8 DEF Refused, Proceed, Send, Finish, channelVars
  <2>9. ASSUME Unanswered PROVE GapKept'
    BY <2>9 DEF Unanswered, Proceed, Send, Finish, Request
  <2>10. ASSUME Raises PROVE GapKept'
    BY <2>10 DEF Raises, Breaks, Finish, channelVars
  <2>14. ASSUME Cancelled PROVE GapKept'
    BY <2>14 DEF Cancelled, Breaks, Finish, Request
  <2>11. ASSUME NEW wait \in RetryAfters, RateLimited(wait) PROVE GapKept'
    BY <2>11 DEF RateLimited, channelVars
  <2>12. ASSUME NEW r \in wire, Arrives(r) PROVE GapKept'
    BY <2>12 DEF Arrives, callVars
  <2>13. CASE UNCHANGED vars
    BY <2>13 DEF vars, callVars, channelVars
  <2> QED
    BY <2>1, <2>2, <2>3, <2>4, <2>5, <2>6, <2>7, <2>8, <2>9, <2>10, <2>11, <2>12,
        <2>13, <2>14 DEF Next
<1> QED
  BY <1>1, <1>2, InductiveInvariant, PTL DEF Spec

=============================================================================
