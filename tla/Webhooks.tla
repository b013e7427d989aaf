------------------------------- MODULE Webhooks -------------------------------
(***************************************************************************)
(* The platform's webhooks and the endpoint that verifies them with        *)
(* parse_webhook_event, as the example server does.  The platform makes    *)
(* several attempts of a delivery, each signed anew with its own time, and *)
(* resends one when asked to; what it posts may be late, repeated or       *)
(* damaged on its way; the endpoint may die at any point of a request, and *)
(* what it has recorded of the events it handled survives that.            *)
(*                                                                         *)
(* Time is counted in half seconds, as verify_webhook floors the seconds   *)
(* of the clock and of the tolerance.                                      *)
(***************************************************************************)
EXTENDS Integers, FiniteSets

CONSTANTS
  Deliveries,        \* in the order of their events, 1..n
  Object,            \* of each delivery: the object its event is about
  Skews,             \* how far the endpoint's clock may be off
  Tolerances,        \* the tolerance= arguments
  DefaultTolerance,  \* DEFAULT_WEBHOOK_TOLERANCE, in seconds
  MaxAttempts,       \* bound: attempts and resends of a delivery
  MaxTime, MaxDamage \* bounds: the clock, and how many posts are damaged

ASSUME WebhooksAssumption ==
  /\ Deliveries \subseteq Nat /\ Skews \subseteq Int /\ Tolerances \subseteq Int
  /\ DefaultTolerance \in Nat /\ MaxAttempts \in Nat /\ MaxTime \in Nat /\ MaxDamage \in Nat

VARIABLES
  now, damages,
  skew, tolerance,   \* of this endpoint
  status, attempts,  \* of each delivery, on the platform
  wire,              \* the posts under way
  serving,           \* the request the endpoint is at, as a set of at most one
  seen,              \* the delivery ids it has recorded
  handled            \* how often it handled the event of each delivery

args         == <<skew, tolerance>>
platformVars == <<status, attempts>>
endpointVars == <<serving, seen, handled>>
hookVars     == <<now, damages, args, platformVars, wire, endpointVars>>

WebhookDeliveryStatus ==
  {"none", "pending", "in_progress", "delivered", "failed", "cancelled"}
Verdicts == {"ok", "headers", "timestamp", "signature"}

(* What the signature covers; and a post, with the attempt it comes from.  *)
Signed == [id : Deliveries, ts : Int, body : Deliveries]
Posts  == [id : Deliveries, ts : Int, body : Deliveries, sig : Signed,
           headers : {"single", "missing", "repeated"}, of : Deliveries, attempt : Nat, sent : Nat]
Requests == [post : Posts, at : Int, verdict : Verdicts, recorded : BOOLEAN]

-----------------------------------------------------------------------------
(* verify_webhook.                                                         *)

Abs(n) == IF n < 0 THEN -n ELSE n

(* Mutation: a tolerance of zero is taken at its word.                     *)
WindowAsGiven == tolerance \div 2
Window == IF tolerance > 0 THEN tolerance \div 2 ELSE DefaultTolerance

(* Mutation: only what is too old is out of range.                         *)
TooOld(ts, clock) == (clock \div 2) - ts > Window
OutOfRange(ts, clock) == Abs((clock \div 2) - ts) > Window

(* Mutation: the delivery id is left out of what is signed.                *)
WithoutId(p) == [ts |-> p.ts, body |-> p.body] = [ts |-> p.sig.ts, body |-> p.sig.body]

(* Mutation: the body is left out of what is signed.                       *)
WithoutBody(p) == [id |-> p.id, ts |-> p.ts] = [id |-> p.sig.id, ts |-> p.sig.ts]
SignatureMatches(p) == p.sig = [id |-> p.id, ts |-> p.ts, body |-> p.body]

Verdict(p, clock) ==
  IF p.headers # "single" THEN "headers"
  ELSE IF OutOfRange(p.ts, clock) THEN "timestamp"
  ELSE IF p.ts = 0 THEN "headers"
  ELSE IF ~SignatureMatches(p) THEN "signature" ELSE "ok"

-----------------------------------------------------------------------------
(* The platform.                                                           *)

Newer(d) == {e \in Deliveries : e > d /\ Object[e] = Object[d] /\ status[e] # "none"}

Emit(d) ==
  /\ status[d] = "none" /\ \A e \in Deliveries : e < d => status[e] # "none"
  /\ status' = [e \in Deliveries |->
       IF e = d THEN "pending"
       ELSE IF Object[e] = Object[d] /\ status[e] = "pending" /\ attempts[e] = 0
       THEN "cancelled" ELSE status[e]]
  /\ UNCHANGED <<now, damages, args, attempts, wire, endpointVars>>

PostTo(d) ==
  LET signed == [id |-> d, ts |-> now \div 2, body |-> d] IN
  /\ attempts[d] < MaxAttempts
  /\ attempts' = [attempts EXCEPT ![d] = @ + 1]
  /\ status' = [status EXCEPT ![d] = "in_progress"]
  /\ wire' = wire \cup {[id |-> d, ts |-> signed.ts, body |-> d, sig |-> signed,
                         headers |-> "single", of |-> d, attempt |-> attempts'[d], sent |-> now]}
  /\ UNCHANGED <<now, damages, args, endpointVars>>

Attempt(d) == status[d] = "pending" /\ PostTo(d)

(* webhooks.resend: refused while the platform is at it, or has newer news *)
(* of the object.                                                          *)
Resend(d) == status[d] \in {"delivered", "failed"} /\ Newer(d) = {} /\ PostTo(d)

(* Nothing answered in time, or the endpoint refused.                      *)
AttemptFails(d) ==
  /\ status[d] = "in_progress"
  /\ status' = [status EXCEPT ![d] = IF attempts[d] < MaxAttempts THEN "pending" ELSE "failed"]
  /\ UNCHANGED <<now, damages, args, attempts, wire, endpointVars>>

-----------------------------------------------------------------------------
(* On the way.                                                             *)

Damaged(p) ==
  {[p EXCEPT !.headers = h] : h \in {"missing", "repeated"}}
    \cup {[p EXCEPT !.id = d] : d \in Deliveries} \cup {[p EXCEPT !.body = d] : d \in Deliveries}
    \cup {[p EXCEPT !.ts = ts] : ts \in {0, p.ts + 1}}

Damage(p) ==
  /\ damages < MaxDamage /\ damages' = damages + 1
  /\ \E q \in Damaged(p) \ {p} : wire' = (wire \ {p}) \cup {q}
  /\ UNCHANGED <<now, args, platformVars, endpointVars>>

Tick ==
  /\ now < MaxTime /\ now' = now + 1
  /\ UNCHANGED <<damages, args, platformVars, wire, endpointVars>>

-----------------------------------------------------------------------------
(* The endpoint: one request at a time.                                    *)

(* Mutation: a request is taken while another is served.                   *)
ReceivesInThreads(p) ==
  /\ serving' = serving \cup {[post |-> p, at |-> now + skew, verdict |-> Verdict(p, now + skew),
                               recorded |-> FALSE]}
  /\ wire' = wire \ {p} \/ UNCHANGED wire
  /\ UNCHANGED <<now, damages, args, platformVars, seen, handled>>

(* do_POST: read the request and verify it.  A post may come again.        *)
Receive(p) ==
  /\ serving = {}
  /\ serving' = {[post |-> p, at |-> now + skew, verdict |-> Verdict(p, now + skew),
                  recorded |-> FALSE]}
  /\ wire' = wire \ {p} \/ UNCHANGED wire
  /\ UNCHANGED <<now, damages, args, platformVars, seen, handled>>

(* Mutation: an event is known by the signature of its post.               *)
KeyBySignature(p) == p.sig
Key(p) == p.id

(* Handle a verified event, unless its delivery is on record.              *)
Handle(r) ==
  /\ r.verdict = "ok" /\ ~r.recorded
  /\ serving' = {[r EXCEPT !.recorded = TRUE]}
  /\ handled' = IF Key(r.post) \in seen THEN handled
                ELSE [handled EXCEPT ![r.post.body] = @ + 1]
  /\ seen' = seen \cup {Key(r.post)}
  /\ UNCHANGED <<now, damages, args, platformVars, wire>>

(* Mutation: acknowledge first, handle the event afterwards.               *)
AcknowledgesFirst(r) == r.verdict = "ok"
Acknowledges(r) == r.verdict = "ok" /\ r.recorded

(* 200, which counts while the platform still waits for this attempt; or   *)
(* nothing that the platform hears.                                        *)
Answer(r) ==
  /\ Acknowledges(r)
  /\ serving' = {}
  /\ status' = IF status[r.post.of] = "in_progress" /\ attempts[r.post.of] = r.post.attempt
               THEN [status EXCEPT ![r.post.of] = "delivered"] ELSE status
  /\ UNCHANGED <<now, damages, args, attempts, wire, seen, handled>>

(* 401, or the endpoint dies.                                              *)
EndsUnacknowledged(r) ==
  /\ serving' = {}
  /\ UNCHANGED <<now, damages, args, platformVars, wire, seen, handled>>

-----------------------------------------------------------------------------
Init ==
  /\ now = 2 /\ damages = 0
  /\ skew \in Skews /\ tolerance \in Tolerances
  /\ status = [d \in Deliveries |-> "none"] /\ attempts = [d \in Deliveries |-> 0]
  /\ wire = {} /\ serving = {} /\ seen = {}
  /\ handled = [d \in Deliveries |-> 0]

Next ==
  \/ \E d \in Deliveries : Emit(d) \/ Attempt(d) \/ Resend(d) \/ AttemptFails(d)
  \/ \E p \in wire : Damage(p) \/ Receive(p)
  \/ \E r \in serving : Handle(r) \/ Answer(r) \/ EndsUnacknowledged(r)
  \/ Tick

Spec == Init /\ [][Next]_hookVars

-----------------------------------------------------------------------------
(* Properties.                                                             *)

(* Every variable has its type, and at most one request is served.         *)
TypeOK ==
  /\ now \in Nat /\ damages \in 0..MaxDamage
  /\ skew \in Skews /\ tolerance \in Tolerances
  /\ status \in [Deliveries -> WebhookDeliveryStatus]
  /\ attempts \in [Deliveries -> 0..MaxAttempts]
  /\ wire \subseteq Posts
  /\ \A r \in serving : r \in Requests /\ serving = {r}
  /\ seen \subseteq Deliveries
  /\ handled \in [Deliveries -> Nat]

(* The endpoint acts on each event at most once: over every attempt and    *)
(* resend of its delivery, posts that come twice, and its own crashes.     *)
HandledOnce == \A d \in Deliveries : handled[d] <= 1

(* What the platform counts as delivered was handled, even if the request  *)
(* that said so came late, or the endpoint died before another answered.   *)
DeliveredIsHandled == \A d \in Deliveries : status[d] = "delivered" => handled[d] = 1

Intact(p) ==
  /\ p.headers = "single" /\ p.id = p.of /\ p.body = p.of
  /\ p.ts = p.sent \div 2

(* How far from the local clock a post may have been signed.               *)
Allowed == IF tolerance > 0 THEN tolerance ELSE 2 * DefaultTolerance

(* Whatever happened to a post, it is accepted only as the platform sent   *)
(* it, and not when the endpoint's clock is a second or more beyond the    *)
(* tolerance away from the moment of signing: before it or after.          *)
AcceptedIsFresh ==
  \A r \in serving : r.verdict = "ok" =>
    /\ Intact(r.post)
    /\ Abs(r.at - r.post.sent) < 2 + Allowed

(* An intact post is accepted whenever the endpoint's clock is within the  *)
(* tolerance, in whole seconds, of the moment of signing.                  *)
PunctualIsAccepted ==
  \A r \in serving :
    /\ Intact(r.post)
    /\ Abs(r.at - r.post.sent) <= 2 * (Allowed \div 2)
    => r.verdict = "ok"

(* An event as its delivery's status shows it.                             *)
News(d) ==
  IF status[d] = "none" THEN "none" ELSE IF status[d] = "cancelled" THEN "dropped" ELSE "open"

Abstract == INSTANCE Notifications WITH
  news  <- [d \in Deliveries |-> News(d)],
  acted <- handled,
  known <- [d \in Deliveries |-> status[d] = "delivered"]

(* The verified, deduplicated posts make Notifications: an event is acted  *)
(* on once, only after it happened and never when newer news took its      *)
(* place unposted; the platform counts it as delivered only after that.    *)
ImplementsNotifications == Abstract!NSpec
=============================================================================
