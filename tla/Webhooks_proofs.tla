---------------------------- MODULE Webhooks_proofs ----------------------------
(* Proofs about Webhooks, for any deliveries, attempts, clocks and         *)
(* tolerances, and any number of damaged posts.                            *)
EXTENDS Webhooks, TLAPS

(* The signature of a post is of what the platform sent, whatever became   *)
(* of the rest of it.                                                      *)
SignedAsSent(p) ==
  /\ p.sig = [id |-> p.of, ts |-> p.sent \div 2, body |-> p.of]
  /\ p.sent >= 2

WireInv == now >= 2 /\ \A p \in wire : SignedAsSent(p)

ServingInv ==
  \A r \in serving :
    /\ SignedAsSent(r.post)
    /\ r.verdict = Verdict(r.post, r.at)
    /\ r.recorded => r.verdict = "ok" /\ r.post.id \in seen

SeenInv == \A d \in Deliveries : handled[d] = IF d \in seen THEN 1 ELSE 0

HookInv == TypeOK /\ WireInv /\ ServingInv /\ SeenInv /\ DeliveredIsHandled

-----------------------------------------------------------------------------
(* A verdict of ok.                                                        *)

LEMMA HalvesTyped ==
  ASSUME NEW n \in Int
  PROVE  n \div 2 \in Int /\ 2 * (n \div 2) <= n /\ n <= 2 * (n \div 2) + 1
  OBVIOUS

LEMMA AcceptedIsIntact ==
  ASSUME NEW p \in Posts, NEW clock \in Int, SignedAsSent(p), Verdict(p, clock) = "ok"
  PROVE  Intact(p) /\ ~OutOfRange(p.ts, clock)
<1>1. p.headers = "single" /\ ~OutOfRange(p.ts, clock) /\ SignatureMatches(p)
  BY DEF Verdict
<1>2. [id |-> p.id, ts |-> p.ts, body |-> p.body] = [id |-> p.of, ts |-> p.sent \div 2, body |-> p.of]
  BY <1>1 DEF SignatureMatches, SignedAsSent
<1>3. p.id = p.of /\ p.ts = p.sent \div 2 /\ p.body = p.of
  BY <1>2
<1>4. QED
  BY <1>1, <1>3 DEF Intact

LEMMA IntactVerdict ==
  ASSUME NEW p \in Posts, NEW clock \in Int, SignedAsSent(p), Intact(p)
  PROVE  Verdict(p, clock) = IF OutOfRange(p.ts, clock) THEN "timestamp" ELSE "ok"
<1>1. p.ts # 0
  BY HalvesTyped DEF Intact, SignedAsSent, Posts
<1>2. SignatureMatches(p)
  BY DEF Intact, SignedAsSent, SignatureMatches
<1>3. QED
  BY <1>1, <1>2 DEF Verdict, Intact

LEMMA VerdictTyped == \A p, clock : Verdict(p, clock) \in Verdicts
  BY DEF Verdict, Verdicts

(* The whole seconds of two moments differ by their distance, give or take *)
(* less than one.                                                          *)
LEMMA WindowBounds ==
  ASSUME NEW clock \in Int, NEW sent \in Nat, tolerance \in Int, DefaultTolerance \in Nat
  PROVE  /\ ~OutOfRange(sent \div 2, clock) => Abs(clock - sent) < 2 + Allowed
         /\ Abs(clock - sent) <= 2 * (Allowed \div 2) => ~OutOfRange(sent \div 2, clock)
<1> DEFINE c == clock \div 2
           s == sent \div 2
<1>1. /\ c \in Int /\ 2 * c <= clock /\ clock <= 2 * c + 1
      /\ s \in Int /\ 2 * s <= sent /\ sent <= 2 * s + 1
  BY HalvesTyped
<1>2. Window \in Int /\ Allowed \in Int /\ Window = Allowed \div 2 /\ 2 * Window <= Allowed
  <2>1. CASE tolerance > 0
    BY <2>1, HalvesTyped DEF Window, Allowed
  <2>2. CASE ~(tolerance > 0)
    BY <2>2 DEF Window, Allowed
  <2>3. QED
    BY <2>1, <2>2
<1>3. OutOfRange(s, clock) <=> (c - s > Window \/ s - c > Window)
  <2>1. OutOfRange(s, clock) <=> Abs(c - s) > Window
    BY DEF OutOfRange
  <2> HIDE DEF c, s
  <2>2. QED
    BY <1>1, <1>2, <2>1 DEF Abs
<1> HIDE DEF c, s
<1>4. ~OutOfRange(s, clock) => Abs(clock - sent) < 2 + Allowed
  BY <1>1, <1>2, <1>3 DEF Abs
<1>5. Abs(clock - sent) <= 2 * (Allowed \div 2) => ~OutOfRange(s, clock)
  BY <1>1, <1>2, <1>3 DEF Abs
<1>6. QED
  BY <1>4, <1>5 DEF s

-----------------------------------------------------------------------------
(* The invariant.                                                          *)

LEMMA HookInvInit == WebhooksAssumption /\ Init => HookInv
  BY DEF Init, HookInv, TypeOK, WireInv, ServingInv, SeenInv, DeliveredIsHandled,
         WebhooksAssumption, WebhookDeliveryStatus

(* A new attempt of a delivery.                                            *)
LEMMA PostToInv ==
  ASSUME WebhooksAssumption, HookInv, NEW d \in Deliveries, PostTo(d)
  PROVE  HookInv'
<1> USE DEF HookInv
<1> DEFINE p == [id |-> d, ts |-> now \div 2, body |-> d,
                 sig |-> [id |-> d, ts |-> now \div 2, body |-> d],
                 headers |-> "single", of |-> d, attempt |-> attempts'[d], sent |-> now]
<1>1. /\ attempts' = [attempts EXCEPT ![d] = @ + 1] /\ attempts[d] < MaxAttempts
      /\ status' = [status EXCEPT ![d] = "in_progress"]
      /\ wire' = wire \cup {p}
      /\ UNCHANGED <<now, damages, skew, tolerance, serving, seen, handled>>
  BY DEF PostTo, args, endpointVars
<1>2. attempts[d] + 1 \in 0..MaxAttempts /\ attempts'[d] \in Nat
  BY <1>1 DEF TypeOK, WebhooksAssumption
<1>3. p \in Posts /\ SignedAsSent(p)
  BY <1>2 DEF TypeOK, Posts, Signed, SignedAsSent, WireInv
<1> HIDE DEF p
<1>4. TypeOK'
  BY <1>1, <1>2, <1>3 DEF TypeOK, WebhookDeliveryStatus
<1>5. WireInv'
  BY <1>1, <1>3 DEF WireInv, SignedAsSent
<1>6. ServingInv' /\ SeenInv'
  BY <1>1 DEF ServingInv, SeenInv, SignedAsSent, Verdict, OutOfRange, Window, SignatureMatches
<1>7. DeliveredIsHandled'
  BY <1>1 DEF DeliveredIsHandled, TypeOK
<1>8. QED
  BY <1>4, <1>5, <1>6, <1>7

(* A post is damaged: its signature stays.                                 *)
LEMMA DamageInv ==
  ASSUME WebhooksAssumption, HookInv, NEW p \in wire, Damage(p)
  PROVE  HookInv'
<1> USE DEF HookInv
<1>1. PICK q \in Damaged(p) : wire' = (wire \ {p}) \cup {q}
  BY DEF Damage
<1>2. /\ damages < MaxDamage /\ damages' = damages + 1
      /\ UNCHANGED <<now, skew, tolerance, status, attempts, serving, seen, handled>>
  BY DEF Damage, args, platformVars, endpointVars
<1>3. p \in Posts /\ SignedAsSent(p)
  BY DEF TypeOK, WireInv
<1>4. q \in Posts
  BY <1>1, <1>3 DEF Damaged, Posts
<1>5. q.sig = p.sig /\ q.of = p.of /\ q.sent = p.sent
  BY <1>1, <1>3 DEF Damaged, Posts
<1>6. TypeOK'
  BY <1>1, <1>2, <1>4 DEF TypeOK, WebhooksAssumption
<1>7. WireInv'
  BY <1>1, <1>2, <1>3, <1>5 DEF WireInv, SignedAsSent
<1>8. ServingInv' /\ SeenInv' /\ DeliveredIsHandled'
  BY <1>2 DEF ServingInv, SeenInv, DeliveredIsHandled, SignedAsSent, Verdict, OutOfRange, Window,
              SignatureMatches
<1>9. QED
  BY <1>6, <1>7, <1>8

LEMMA ReceiveInv ==
  ASSUME WebhooksAssumption, HookInv, NEW p \in wire, Receive(p)
  PROVE  HookInv'
<1> USE DEF HookInv
<1> DEFINE r == [post |-> p, at |-> now + skew, verdict |-> Verdict(p, now + skew),
                 recorded |-> FALSE]
<1>1. /\ serving' = {r} /\ wire' \subseteq wire
      /\ UNCHANGED <<now, damages, skew, tolerance, status, attempts, seen, handled>>
  BY DEF Receive, args, platformVars
<1>2. r \in Requests
  BY VerdictTyped DEF TypeOK, Requests, WebhooksAssumption
<1>3. r.verdict = Verdict(p, r.at) /\ r.post = p /\ r.recorded = FALSE /\ SignedAsSent(p)
  BY DEF WireInv
<1> HIDE DEF r
<1>4. TypeOK'
  BY <1>1, <1>2 DEF TypeOK
<1>5. Verdict(p, r.at)' = Verdict(p, r.at)
  BY <1>1 DEF r, Verdict, OutOfRange, Window, SignatureMatches
<1>6. ServingInv'
  BY <1>1, <1>3, <1>5 DEF ServingInv, SignedAsSent, Verdict, OutOfRange, Window, SignatureMatches
<1>7. WireInv' /\ SeenInv' /\ DeliveredIsHandled'
  BY <1>1 DEF WireInv, SeenInv, DeliveredIsHandled, SignedAsSent
<1>8. QED
  BY <1>4, <1>6, <1>7

(* The event of a verified post is that of the delivery it names.          *)
LEMMA HandleInv ==
  ASSUME WebhooksAssumption, HookInv, NEW r \in serving, Handle(r)
  PROVE  HookInv'
<1> USE DEF HookInv
<1>1. r \in Requests /\ SignedAsSent(r.post) /\ r.verdict = Verdict(r.post, r.at)
      /\ r.verdict = "ok"
  BY DEF TypeOK, ServingInv, Handle
<1>2. r.post \in Posts /\ r.at \in Int /\ r.post.id \in Deliveries
  BY <1>1 DEF Requests, Posts
<1>3. r.post.body = r.post.id
  BY <1>1, <1>2, AcceptedIsIntact DEF Intact
<1> DEFINE d == r.post.id
           q == [r EXCEPT !.recorded = TRUE]
<1>4. /\ serving' = {q}
      /\ handled' = IF d \in seen THEN handled ELSE [handled EXCEPT ![d] = @ + 1]
      /\ seen' = seen \cup {d}
      /\ UNCHANGED <<now, damages, skew, tolerance, status, attempts, wire>>
  BY <1>3 DEF Handle, Key, args, platformVars
<1>5. q \in Requests /\ q.post = r.post /\ q.at = r.at /\ q.verdict = r.verdict
  BY <1>1 DEF Requests
<1> HIDE DEF q
<1>6. SeenInv'
  BY <1>2, <1>4 DEF SeenInv, TypeOK
<1>7. TypeOK'
  <2>1. handled \in [Deliveries -> Nat] /\ seen \subseteq Deliveries
    BY DEF TypeOK
  <2>2. d \in Deliveries
    BY <1>2
  <2> HIDE DEF d, HookInv
  <2>3. handled' \in [Deliveries -> Nat]
    BY <1>4, <2>1, <2>2
  <2>4. seen' \subseteq Deliveries
    BY <1>4, <2>1, <2>2
  <2>5. QED
    BY <1>4, <1>5, <2>3, <2>4 DEF HookInv, TypeOK
<1>8. ServingInv'
  BY <1>1, <1>4, <1>5 DEF ServingInv, SignedAsSent, Verdict, OutOfRange, Window, SignatureMatches
<1>9. DeliveredIsHandled'
  BY <1>4, <1>6 DEF SeenInv, DeliveredIsHandled
<1>10. WireInv'
  BY <1>4 DEF WireInv, SignedAsSent
<1>11. QED
  BY <1>6, <1>7, <1>8, <1>9, <1>10

(* What is acknowledged is on record.                                      *)
LEMMA AnswerInv ==
  ASSUME WebhooksAssumption, HookInv, NEW r \in serving, Answer(r)
  PROVE  HookInv'
<1> USE DEF HookInv
<1>1. r \in Requests /\ SignedAsSent(r.post) /\ r.verdict = Verdict(r.post, r.at)
      /\ r.verdict = "ok" /\ r.post.id \in seen
  BY DEF TypeOK, ServingInv, Answer, Acknowledges
<1>2. r.post \in Posts /\ r.at \in Int /\ r.post.id \in Deliveries
  BY <1>1 DEF Requests, Posts
<1>3. r.post.of = r.post.id
  BY <1>1, <1>2, AcceptedIsIntact DEF Intact
<1>4. /\ serving' = {}
      /\ status' = status \/ status' = [status EXCEPT ![r.post.id] = "delivered"]
      /\ UNCHANGED <<now, damages, skew, tolerance, attempts, wire, seen, handled>>
  BY <1>3 DEF Answer, args
<1>5. TypeOK'
  BY <1>2, <1>4 DEF TypeOK, WebhookDeliveryStatus
<1>6. DeliveredIsHandled'
  BY <1>1, <1>2, <1>4 DEF DeliveredIsHandled, SeenInv, TypeOK
<1>7. WireInv' /\ ServingInv' /\ SeenInv'
  BY <1>4 DEF WireInv, ServingInv, SeenInv, SignedAsSent
<1>8. QED
  BY <1>5, <1>6, <1>7

LEMMA HookInvNext == WebhooksAssumption /\ HookInv /\ [Next]_hookVars => HookInv'
<1> SUFFICES ASSUME WebhooksAssumption, HookInv, [Next]_hookVars PROVE HookInv'
  OBVIOUS
<1>1. ASSUME UNCHANGED <<skew, tolerance, attempts, wire, seen, handled>>,
             now' \in Nat, now' >= now, damages' = damages, serving' \subseteq serving,
             status' \in [Deliveries -> WebhookDeliveryStatus],
             \A d \in Deliveries : status'[d] = "delivered" => status[d] = "delivered"
      PROVE  HookInv'
  <2>1. TypeOK'
    BY <1>1 DEF HookInv, TypeOK
  <2>2. WireInv' /\ SeenInv' /\ DeliveredIsHandled'
    BY <1>1 DEF HookInv, TypeOK, WireInv, SeenInv, DeliveredIsHandled, SignedAsSent
  <2>3. ServingInv'
    BY <1>1 DEF HookInv, ServingInv, SignedAsSent, Verdict, OutOfRange, Window, SignatureMatches
  <2>4. QED
    BY <2>1, <2>2, <2>3 DEF HookInv
<1>2. now \in Nat /\ status \in [Deliveries -> WebhookDeliveryStatus]
  BY DEF HookInv, TypeOK
<1>3. ASSUME NEW d \in Deliveries, Emit(d) PROVE HookInv'
  <2>1. \A e \in Deliveries : status'[e] = status[e] \/ status'[e] \in {"pending", "cancelled"}
    BY <1>3 DEF Emit
  <2>2. status' \in [Deliveries -> WebhookDeliveryStatus]
    BY <1>2, <1>3 DEF Emit, WebhookDeliveryStatus
  <2>3. QED
    BY <1>1, <1>2, <1>3, <2>1, <2>2 DEF Emit, args, endpointVars
<1>4. ASSUME NEW d \in Deliveries, Attempt(d) \/ Resend(d) PROVE HookInv'
  BY <1>4, PostToInv DEF Attempt, Resend
<1>5. ASSUME NEW d \in Deliveries, AttemptFails(d) PROVE HookInv'
  <2>1. /\ \A e \in Deliveries : status'[e] = status[e] \/ status'[e] \in {"pending", "failed"}
        /\ status' \in [Deliveries -> WebhookDeliveryStatus]
    BY <1>2, <1>5 DEF AttemptFails, WebhookDeliveryStatus
  <2>2. QED
    BY <1>1, <1>2, <1>5, <2>1 DEF AttemptFails, args, endpointVars
<1>6. ASSUME NEW p \in wire, Damage(p) \/ Receive(p) PROVE HookInv'
  BY <1>6, DamageInv, ReceiveInv
<1>7. ASSUME NEW r \in serving, Handle(r) \/ Answer(r) PROVE HookInv'
  BY <1>7, HandleInv, AnswerInv
<1>8. ASSUME NEW r \in serving, EndsUnacknowledged(r) PROVE HookInv'
  BY <1>1, <1>2, <1>8 DEF EndsUnacknowledged, args, platformVars
<1>9. CASE Tick
  BY <1>1, <1>2, <1>9 DEF Tick, args, platformVars, endpointVars
<1>10. CASE UNCHANGED hookVars
  BY <1>1, <1>2, <1>10 DEF hookVars, args, platformVars, endpointVars
<1>11. QED
  BY <1>3, <1>4, <1>5, <1>6, <1>7, <1>8, <1>9, <1>10 DEF Next

LEMMA HookInvInvariant == Spec => []HookInv
  BY HookInvInit, HookInvNext, WebhooksAssumption, PTL DEF Spec

-----------------------------------------------------------------------------
(* What the run checks.                                                    *)

(* Every variable of the platform and the endpoint keeps its type.         *)
THEOREM WebhooksTypeCorrect == Spec => []TypeOK
<1>1. HookInv => TypeOK
  BY DEF HookInv
<1>2. QED
  BY <1>1, HookInvInvariant, PTL

(* Each event is acted on at most once, whatever is repeated or resent,    *)
(* and wherever the endpoint died.                                         *)
THEOREM HandledOnceCorrect == Spec => []HandledOnce
<1>1. HookInv => HandledOnce
  BY DEF HookInv, SeenInv, HandledOnce
<1>2. QED
  BY <1>1, HookInvInvariant, PTL

(* What the platform counts as delivered, the endpoint has handled.        *)
THEOREM DeliveredIsHandledCorrect == Spec => []DeliveredIsHandled
<1>1. HookInv => DeliveredIsHandled
  BY DEF HookInv
<1>2. QED
  BY <1>1, HookInvInvariant, PTL

LEMMA ServedTyped ==
  ASSUME WebhooksAssumption, HookInv, NEW r \in serving
  PROVE  /\ r.post \in Posts /\ r.at \in Int /\ r.post.sent \in Nat
         /\ SignedAsSent(r.post) /\ r.verdict = Verdict(r.post, r.at)
         /\ tolerance \in Int /\ DefaultTolerance \in Nat
  BY DEF HookInv, TypeOK, ServingInv, Requests, Posts, WebhooksAssumption

(* What verify_webhook accepts is as the platform signed it, and not a     *)
(* second or more beyond the tolerance away from that moment.              *)
THEOREM AcceptedIsFreshCorrect == Spec => []AcceptedIsFresh
<1>1. WebhooksAssumption /\ HookInv => AcceptedIsFresh
  <2> SUFFICES ASSUME WebhooksAssumption, HookInv, NEW r \in serving, r.verdict = "ok"
               PROVE  /\ Intact(r.post)
                      /\ Abs(r.at - r.post.sent) < 2 + Allowed
    BY DEF AcceptedIsFresh
  <2>1. Intact(r.post) /\ ~OutOfRange(r.post.ts, r.at)
    BY ServedTyped, AcceptedIsIntact
  <2>2. QED
    BY <2>1, ServedTyped, WindowBounds DEF Intact
<1>2. QED
  BY <1>1, HookInvInvariant, WebhooksAssumption, PTL

(* What arrives intact and in time is accepted.                            *)
THEOREM PunctualIsAcceptedCorrect == Spec => []PunctualIsAccepted
<1>1. WebhooksAssumption /\ HookInv => PunctualIsAccepted
  <2> SUFFICES ASSUME WebhooksAssumption, HookInv, NEW r \in serving, Intact(r.post),
                      Abs(r.at - r.post.sent) <= 2 * (Allowed \div 2)
               PROVE  r.verdict = "ok"
    BY DEF PunctualIsAccepted
  <2>1. ~OutOfRange(r.post.ts, r.at)
    BY ServedTyped, WindowBounds DEF Intact
  <2>2. QED
    BY <2>1, ServedTyped, IntactVerdict
<1>2. QED
  BY <1>1, HookInvInvariant, WebhooksAssumption, PTL

-----------------------------------------------------------------------------
(* Refinement of Notifications.                                            *)

(* What is under way, being served or handled was posted, and what is      *)
(* cancelled never was.                                                    *)
PostedInv ==
  /\ \A p \in wire : attempts[p.of] > 0
  /\ \A r \in serving : attempts[r.post.of] > 0
  /\ \A d \in Deliveries : handled[d] > 0 => attempts[d] > 0
  /\ \A d \in Deliveries : status[d] \in {"none", "cancelled"} => attempts[d] = 0

NoticeInv == HookInv /\ PostedInv

LEMMA PostedTyped ==
  ASSUME HookInv
  PROVE  /\ \A p \in wire : p \in Posts /\ p.of \in Deliveries
         /\ \A r \in serving : r.post \in Posts /\ r.post.of \in Deliveries /\ serving = {r}
         /\ \A d \in Deliveries : attempts[d] \in Nat /\ handled[d] \in {0, 1}
         /\ attempts \in [Deliveries -> Nat] /\ handled \in [Deliveries -> Nat]
         /\ status \in [Deliveries -> WebhookDeliveryStatus]
<1>1. TypeOK /\ SeenInv
  BY DEF HookInv
<1>2. /\ wire \subseteq Posts /\ \A r \in serving : r.post \in Posts /\ serving = {r}
      /\ \A p \in Posts : p.of \in Deliveries
  BY <1>1 DEF TypeOK, Requests, Posts
<1>3. attempts \in [Deliveries -> Nat] /\ handled \in [Deliveries -> Nat]
      /\ status \in [Deliveries -> WebhookDeliveryStatus]
  BY <1>1, WebhooksAssumption DEF TypeOK, WebhooksAssumption
<1>4. \A d \in Deliveries : handled[d] \in {0, 1}
  BY <1>1 DEF SeenInv
<1>5. QED
  BY <1>2, <1>3, <1>4

(* A verified post is of the delivery it names.                            *)
LEMMA VerifiedPost ==
  ASSUME HookInv, NEW r \in serving, r.verdict = "ok"
  PROVE  r.post.id = r.post.of /\ r.post.body = r.post.of
<1>1. /\ r.post \in Posts /\ r.at \in Int
      /\ SignedAsSent(r.post) /\ Verdict(r.post, r.at) = "ok"
  BY ServedTyped, WebhooksAssumption
<1>2. QED
  BY <1>1, AcceptedIsIntact DEF Intact

LEMMA NoticeInvInit == Init => NoticeInv
<1>1. Init => HookInv
  BY HookInvInit, WebhooksAssumption
<1>2. Init => PostedInv
  BY DEF Init, PostedInv
<1>3. QED
  BY <1>1, <1>2 DEF NoticeInv

LEMMA PostedNext ==
  ASSUME NoticeInv, [Next]_hookVars
  PROVE  PostedInv'
<1>1. /\ HookInv /\ PostedInv
      /\ \A p \in wire : p \in Posts /\ p.of \in Deliveries
      /\ \A r \in serving : r.post \in Posts /\ r.post.of \in Deliveries /\ serving = {r}
      /\ \A d \in Deliveries : attempts[d] \in Nat /\ handled[d] \in {0, 1}
      /\ attempts \in [Deliveries -> Nat] /\ handled \in [Deliveries -> Nat]
      /\ status \in [Deliveries -> WebhookDeliveryStatus]
  BY PostedTyped DEF NoticeInv
<1>2. ASSUME UNCHANGED <<attempts, handled>>, wire' \subseteq wire, serving' \subseteq serving,
             \A d \in Deliveries : status'[d] \in {"none", "cancelled"} => attempts[d] = 0
      PROVE  PostedInv'
  BY <1>1, <1>2 DEF PostedInv
<1>3. ASSUME NEW d \in Deliveries, Emit(d) PROVE PostedInv'
  <2>1. \A e \in Deliveries : status'[e] \in {"none", "cancelled"} => attempts[e] = 0
    BY <1>1, <1>3 DEF Emit, PostedInv
  <2>2. QED
    BY <1>2, <1>3, <2>1 DEF Emit, endpointVars
<1>4. ASSUME NEW d \in Deliveries, PostTo(d) PROVE PostedInv'
  <2>1. /\ attempts' = [attempts EXCEPT ![d] = attempts[d] + 1]
        /\ status' = [status EXCEPT ![d] = "in_progress"]
        /\ UNCHANGED <<serving, handled>>
        /\ \A p \in wire' : p \in wire \/ p.of = d
    BY <1>4 DEF PostTo, endpointVars
  <2>2. \A e \in Deliveries : attempts[e] > 0 => attempts'[e] > 0
    BY <1>1, <2>1
  <2>3. attempts'[d] > 0
    BY <1>1, <2>1
  <2>4. \A e \in Deliveries : status'[e] \in {"none", "cancelled"} => attempts'[e] = 0
    BY <1>1, <2>1 DEF PostedInv
  <2>5. QED
    BY <1>1, <2>1, <2>2, <2>3, <2>4 DEF PostedInv
<1>5. ASSUME NEW d \in Deliveries, AttemptFails(d) PROVE PostedInv'
  <2>1. \A e \in Deliveries : status'[e] \in {"none", "cancelled"} => attempts[e] = 0
    BY <1>1, <1>5 DEF AttemptFails, PostedInv
  <2>2. QED
    BY <1>2, <1>5, <2>1 DEF AttemptFails, endpointVars
<1>6. ASSUME NEW p \in wire, Damage(p) PROVE PostedInv'
  <2>1. PICK q \in Damaged(p) : wire' = (wire \ {p}) \cup {q}
    BY <1>6 DEF Damage
  <2>2. q.of = p.of
    BY <1>1, <2>1 DEF Damaged, Posts
  <2>3. UNCHANGED <<status, attempts, serving, handled>>
    BY <1>6 DEF Damage, platformVars, endpointVars
  <2>4. QED
    BY <1>1, <2>1, <2>2, <2>3 DEF PostedInv
<1>7. ASSUME NEW p \in wire, Receive(p) PROVE PostedInv'
  <2>1. /\ \A r \in serving' : r.post = p
        /\ wire' \subseteq wire /\ UNCHANGED <<status, attempts, handled>>
    BY <1>7 DEF Receive, platformVars
  <2>2. QED
    BY <1>1, <2>1 DEF PostedInv
<1>8. ASSUME NEW r \in serving, Handle(r) PROVE PostedInv'
  <2>1. r.post.body = r.post.of /\ r.post.id = r.post.of /\ r \in Requests
    BY <1>1, <1>8, VerifiedPost DEF Handle, HookInv, TypeOK
  <2>2. /\ \A q \in serving' : q.post = r.post
        /\ \A d \in Deliveries : handled'[d] > 0 => handled[d] > 0 \/ d = r.post.of
        /\ UNCHANGED <<status, attempts, wire>>
    BY <1>1, <1>8, <2>1 DEF Handle, platformVars, Requests
  <2>3. QED
    BY <1>1, <2>2 DEF PostedInv
<1>9. ASSUME NEW r \in serving, Answer(r) PROVE PostedInv'
  <2>1. \A d \in Deliveries : status'[d] \in {"none", "cancelled"} => attempts[d] = 0
    BY <1>1, <1>9 DEF Answer, PostedInv
  <2>2. QED
    BY <1>2, <1>9, <2>1 DEF Answer
<1>10. ASSUME UNCHANGED <<status, attempts, wire, handled>>, serving' \subseteq serving
       PROVE  PostedInv'
  BY <1>1, <1>2, <1>10 DEF PostedInv
<1>11. ASSUME NEW r \in serving, EndsUnacknowledged(r) PROVE PostedInv'
  BY <1>10, <1>11 DEF EndsUnacknowledged, platformVars
<1>12. CASE Tick \/ UNCHANGED hookVars
  BY <1>10, <1>12 DEF Tick, hookVars, platformVars, endpointVars
<1>13. QED
  BY <1>3, <1>4, <1>5, <1>6, <1>7, <1>8, <1>9, <1>11, <1>12 DEF Next, Attempt, Resend

LEMMA NoticeInvInvariant == Spec => []NoticeInv
<1>1. NoticeInv /\ [Next]_hookVars => NoticeInv'
  BY HookInvNext, PostedNext, WebhooksAssumption DEF NoticeInv
<1>2. QED
  BY NoticeInvInit, <1>1, PTL DEF Spec

LEMMA NoticeNext ==
  ASSUME NoticeInv, HookInv', [Next]_hookVars
  PROVE  [Abstract!NNext]_(Abstract!noticeVars)
<1> DEFINE news == [d \in Deliveries |-> News(d)]
           known == [d \in Deliveries |-> status[d] = "delivered"]
           Same == UNCHANGED <<news, handled, known>>
<1>1. /\ HookInv /\ PostedInv /\ SeenInv /\ SeenInv' /\ DeliveredIsHandled
      /\ \A r \in serving : r.post \in Posts /\ r.post.of \in Deliveries /\ serving = {r}
      /\ \A d \in Deliveries : attempts[d] \in Nat /\ handled[d] \in {0, 1}
      /\ attempts \in [Deliveries -> Nat] /\ handled \in [Deliveries -> Nat]
      /\ status \in [Deliveries -> WebhookDeliveryStatus]
  BY PostedTyped DEF NoticeInv, HookInv
<1>2. SUFFICES Same \/ Abstract!NNext
  BY DEF Abstract!noticeVars
<1>3. ASSUME handled' = handled,
             \A d \in Deliveries : News(d)' = News(d) /\ (status'[d] = "delivered" <=> status[d] = "delivered")
      PROVE  Same
  BY <1>3
<1>4. ASSUME NEW d \in Deliveries, Emit(d) PROVE Abstract!NNext
  <2> DEFINE old == {e \in Deliveries : e # d /\ Object[e] = Object[d] /\ status[e] = "pending"
                                       /\ attempts[e] = 0}
  <2>1. news[d] = "none" /\ \A e \in Deliveries : e < d => news[e] # "none"
    BY <1>4 DEF Emit, News
  <2>2. \A e \in old : news[e] = "open" /\ handled[e] = 0
    BY <1>1 DEF News, PostedInv
  <2>3. news' = [e \in Deliveries |->
                   IF e = d THEN "open" ELSE IF e \in old THEN "dropped" ELSE news[e]]
    <3>1. \A e \in Deliveries :
            News(e)' = IF e = d THEN "open" ELSE IF e \in old THEN "dropped" ELSE News(e)
      BY <1>4 DEF Emit, News
    <3>2. QED
      BY <3>1
  <2>4. handled' = handled /\ known' = known
    BY <1>4 DEF Emit, endpointVars
  <2>5. old \in SUBSET {e \in Deliveries : Object[e] = Object[d] /\ news[e] = "open" /\ handled[e] = 0}
    BY <2>2
  <2> HIDE DEF old, news, known
  <2>6. Abstract!Happen(d)
    BY <2>1, <2>3, <2>4, <2>5 DEF Abstract!Happen, news, known
  <2>7. QED
    BY <2>6 DEF Abstract!NNext
<1>5. ASSUME NEW d \in Deliveries, PostTo(d),
             status[d] = "pending" \/ status[d] = "failed"
      PROVE  Same
  <2>1. status' = [status EXCEPT ![d] = "in_progress"] /\ handled' = handled
    BY <1>5 DEF PostTo, endpointVars
  <2>2. \A e \in Deliveries :
          News(e)' = News(e) /\ (status'[e] = "delivered" <=> status[e] = "delivered")
    BY <1>1, <1>5, <2>1 DEF News
  <2>3. QED
    BY <1>3, <2>1, <2>2
<1>6. ASSUME NEW d \in Deliveries, PostTo(d), status[d] = "delivered", Newer(d) = {}
      PROVE  Abstract!NNext
  <2>1. status' = [status EXCEPT ![d] = "in_progress"] /\ handled' = handled
    BY <1>6 DEF PostTo, endpointVars
  <2>2. known[d] /\ known' = [known EXCEPT ![d] = FALSE]
    BY <1>1, <1>6, <2>1
  <2>3. \A e \in Deliveries : News(e)' = News(e)
    BY <1>1, <1>6, <2>1 DEF News
  <2>4. ~\E e \in Deliveries : e > d /\ Object[e] = Object[d] /\ news[e] # "none"
    BY <1>6 DEF Newer, News
  <2>5. Abstract!Forget(d)
    BY <2>1, <2>2, <2>3, <2>4 DEF Abstract!Forget
  <2>6. QED
    BY <2>5 DEF Abstract!NNext
<1>7. ASSUME NEW d \in Deliveries, Attempt(d) \/ Resend(d) PROVE Same \/ Abstract!NNext
  BY <1>5, <1>6, <1>7 DEF Attempt, Resend
<1>8. ASSUME NEW d \in Deliveries, AttemptFails(d) PROVE Same
  <2>1. \A e \in Deliveries :
          News(e)' = News(e) /\ (status'[e] = "delivered" <=> status[e] = "delivered")
    BY <1>1, <1>8 DEF AttemptFails, News
  <2>2. QED
    BY <1>3, <1>8, <2>1 DEF AttemptFails, endpointVars
<1>9. ASSUME NEW r \in serving, Handle(r) PROVE Same \/ Abstract!NNext
  <2> DEFINE d == r.post.of
  <2>1. r.post.id = d /\ r.post.body = d /\ d \in Deliveries
    BY <1>1, <1>9, VerifiedPost DEF Handle
  <2>2. status' = status /\ handled' = IF d \in seen THEN handled ELSE [handled EXCEPT ![d] = @ + 1]
    BY <1>9, <2>1 DEF Handle, Key, platformVars
  <2>3. CASE d \in seen
    BY <1>3, <2>2, <2>3 DEF News
  <2>4. CASE d \notin seen
    <3>1. handled[d] = 0 /\ handled' = [handled EXCEPT ![d] = 1]
      <4>1. handled[d] = 0
        BY <1>1, <2>1, <2>4 DEF SeenInv
      <4>2. handled' = [handled EXCEPT ![d] = handled[d] + 1]
        BY <2>2, <2>4
      <4>3. handled[d] + 1 = 1
        BY <4>1
      <4>4. QED
        BY <4>1, <4>2, <4>3
    <3>2. news[d] = "open"
      BY <1>1, <2>1 DEF PostedInv, News
    <3>3. Abstract!Act(d)
      BY <2>2, <3>1, <3>2 DEF Abstract!Act, News
    <3>4. QED
      BY <2>1, <3>3 DEF Abstract!NNext
  <2>5. QED
    BY <2>3, <2>4
<1>10. ASSUME NEW r \in serving, Answer(r) PROVE Same \/ Abstract!NNext
  <2> DEFINE d == r.post.of
  <2>1. r.post.id = d /\ d \in Deliveries /\ d \in seen
    BY <1>1, <1>10, VerifiedPost DEF Answer, Acknowledges, HookInv, ServingInv
  <2>2. handled' = handled
    BY <1>10 DEF Answer
  <2>3. CASE status' = status
    BY <1>3, <2>2, <2>3 DEF News
  <2>4. CASE status' # status
    <3>1. status[d] = "in_progress" /\ status' = [status EXCEPT ![d] = "delivered"]
      BY <1>10, <2>4 DEF Answer
    <3>2. handled[d] = 1
      BY <1>1, <2>1 DEF SeenInv
    <3>3. ~known[d] /\ known' = [known EXCEPT ![d] = TRUE]
      BY <1>1, <2>1, <3>1
    <3>4. \A e \in Deliveries : News(e)' = News(e)
      BY <1>1, <2>1, <3>1 DEF News
    <3>5. Abstract!Learn(d)
      BY <2>2, <3>2, <3>3, <3>4 DEF Abstract!Learn
    <3>6. QED
      BY <2>1, <3>5 DEF Abstract!NNext
  <2>5. QED
    BY <2>3, <2>4
<1>11. ASSUME UNCHANGED <<status, handled>> PROVE Same
  BY <1>3, <1>11 DEF News
<1>12. ASSUME NEW p \in wire, Damage(p) \/ Receive(p) PROVE Same
  BY <1>11, <1>12 DEF Damage, Receive, platformVars, endpointVars
<1>13. ASSUME NEW r \in serving, EndsUnacknowledged(r) PROVE Same
  BY <1>11, <1>13 DEF EndsUnacknowledged, platformVars
<1>14. CASE Tick \/ UNCHANGED hookVars
  BY <1>11, <1>14 DEF Tick, hookVars, platformVars, endpointVars
<1> HIDE DEF Same
<1>15. QED
  BY <1>4, <1>7, <1>8, <1>9, <1>10, <1>12, <1>13, <1>14 DEF Next

(* Every behaviour of the platform, the network and the endpoint is one of *)
(* Notifications: an event is acted on once, never after newer news took   *)
(* its place unposted, and what counts as delivered was acted on.          *)
THEOREM NotificationsRefinement == Spec => ImplementsNotifications
<1>1. Init => Abstract!NInit
  BY DEF Init, Abstract!NInit, News
<1>2. NoticeInv /\ NoticeInv' /\ [Next]_hookVars => [Abstract!NNext]_(Abstract!noticeVars)
  BY NoticeNext DEF NoticeInv
<1>3. QED
  BY <1>1, <1>2, NoticeInvInvariant, PTL DEF Spec, ImplementsNotifications, Abstract!NSpec
=============================================================================
