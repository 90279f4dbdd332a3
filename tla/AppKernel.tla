----------------------------- MODULE AppKernel -----------------------------
(***************************************************************************)
(* The request pipeline of the app kernel, for the requests of one route   *)
(* that asks for everything: a mandatory audit report, a concurrency       *)
(* limit, an idempotency key, a secret and a deadline.  A request runs     *)
(* from await to await without interruption; between two awaits the other  *)
(* requests run, deadlines pass, secrets are revoked and idempotency keys  *)
(* expire.  A handler that outlives its deadline goes on running.          *)
(***************************************************************************)
EXTENDS Integers, FiniteSets, ReleaseCommit

CONSTANTS
  Requests,
  Keys,          \* idempotency keys
  LimitSets,     \* the routes' limits: [maxConcurrent, auditCapacity]
  MaxEpoch,      \* bound on the revocations
  MaxExpiries    \* bound on the expiries of keys

ASSUME LimitAssumption == LimitSets \subseteq [maxConcurrent : Nat, auditCapacity : Nat]

VARIABLES
  limits,
  req,           \* each request and its handler
  reserved,      \* audit: the requests whose reservation is open
  retained,      \*        events the sink holds
  custody,       \*        events taken over from it
  seen,          \* idempotency: the keys held
  term,          \*              how often each has expired
  arena,         \* the boot-resolved secret: its entry and revocation epoch
  authority      \* release leases

vars == <<limits, req, reserved, retained, custody, seen, term, arena, authority>>

Refusals  == {"refused", "secret_unavailable", "internal_error", "deadline_exceeded"}
Responses == {"none", "audit_unavailable", "success"} \cup Refusals
NoKey == "no key"

(* handler: what the developer's code is doing, whoever still waits for it.
   refusal: it holds a SecretReleaseRefused it may let escape.
   unreadable: the epoch could not be read, which the kernel keeps to itself.
   observed: the epoch at which the copy it was handed was taken. *)
NewRequest ==
  [stage |-> "new", key |-> NoKey, claimTerm |-> 0, epoch |-> 0, observed |-> 0,
   spent |-> FALSE, delivered |-> FALSE, failed |-> FALSE,
   refusal |-> FALSE, unreadable |-> FALSE,
   handler |-> "none", late |-> FALSE, slot |-> FALSE, response |-> "none"]

Init ==
  /\ limits \in LimitSets
  /\ req = [q \in Requests |-> NewRequest]
  /\ reserved = {} /\ retained = {} /\ custody = {}
  /\ seen = {} /\ term = [k \in Keys |-> 0]
  /\ arena = [entry |-> "live", epoch |-> 0]
  /\ authority = NoLeases

InFlight == {q \in Requests : req[q].slot}

-----------------------------------------------------------------------------
(* The audit sink: what it holds and what it has promised room for. *)

(* Mutant: room that was promised is given away. *)
HasRoom_Unreserved == Cardinality(retained) < limits.auditCapacity

HasRoom == Cardinality(retained) + Cardinality(reserved) < limits.auditCapacity

TakeDrained ==
  /\ retained # {}
  /\ \E events \in SUBSET retained :
       /\ events # {}
       /\ retained' = retained \ events
       /\ custody' = custody \cup events
  /\ UNCHANGED <<limits, req, reserved, seen, term, arena, authority>>

-----------------------------------------------------------------------------
(* The pipeline. *)

(* Of a handler nobody listens to, all that matters is whether it runs. *)
Over(handler) == IF handler \in {"none", "running"} THEN handler ELSE "over"

(* runPipeline returns, and handle has yet to resume.  What the handler threw or
   may still throw reaches nobody any more, and no epoch is read again. *)
Encoded(r, response) ==
  [r EXCEPT !.stage = "encoded", !.response = response,
            !.handler = IF response = "success" THEN @ ELSE Over(@),
            !.refusal = FALSE, !.unreadable = FALSE, !.epoch = 0, !.observed = 0]

(* The outcomes that carry the publication recheck and the lease's finalizer. *)
Rechecked(response) == response \in {"success", "internal_error", "deadline_exceeded"}

(* Up to the claim.  The gates that read the request alone, and the rate
   window, may refuse; the concurrency gate does when the route is full; the
   secrets gate does when the secret is not there.  A refusal gives back the
   slot it holds. *)
Arrive(q, key) ==
  /\ req[q].stage = "new"
  /\ LET r == [req[q] EXCEPT !.key = key] IN
     IF ~HasRoom
     THEN /\ req' = [req EXCEPT ![q] =
                       [r EXCEPT !.stage = "answered", !.response = "audit_unavailable"]]
          /\ UNCHANGED reserved
     ELSE /\ reserved' = reserved \cup {q}
          /\ \/ req' = [req EXCEPT ![q] = Encoded(r, "refused")]
             \/ /\ Cardinality(InFlight) < limits.maxConcurrent
                /\ arena.entry = "live"
                /\ req' = [req EXCEPT ![q] = [r EXCEPT !.stage = "claiming", !.slot = TRUE]]
  /\ UNCHANGED <<limits, retained, custody, seen, term, arena, authority>>

(* Mutant: the key is looked up and not reserved. *)
Claim_Unreserved(q) ==
  /\ req[q].stage = "claiming"
  /\ IF req[q].key \in seen
     THEN req' = [req EXCEPT ![q].stage = "unclaimed"]
     ELSE req' = [req EXCEPT ![q].stage = "claimed", ![q].claimTerm = term[req[q].key]]
  /\ UNCHANGED <<limits, reserved, retained, custody, seen, term, arena, authority>>

(* The store decides, and reserves the key, in one step.  It may also fail
   (the default one when it is full), and then the key may be reserved or
   not. *)
Claim(q) ==
  /\ req[q].stage = "claiming"
  /\ LET key == req[q].key IN
     \/ /\ key \notin seen
        /\ req' = [req EXCEPT ![q].stage = "claimed", ![q].claimTerm = term[key]]
        /\ seen' = seen \cup {key}
     \/ /\ key \in seen
        /\ req' = [req EXCEPT ![q].stage = "unclaimed"]
        /\ UNCHANGED seen
     \/ /\ req' = [req EXCEPT ![q].stage = "unclaimed"]
        /\ seen' \in {seen, seen \cup {key}}
  /\ UNCHANGED <<limits, reserved, retained, custody, term, arena, authority>>

KeyExpires(key) ==
  /\ key \in seen /\ FoldFunction(+, 0, term) < MaxExpiries
  /\ seen' = seen \ {key}
  /\ term' = [term EXCEPT ![key] = @ + 1]
  /\ UNCHANGED <<limits, req, reserved, retained, custody, arena, authority>>

(* After the claim: the epoch is read, the secret is looked up again, and the
   handler is called. *)
Resume(q) ==
  /\ req[q].stage \in {"claimed", "unclaimed"}
  /\ LET r == req[q]
         released == [r EXCEPT !.slot = FALSE]
     IN  req' = [req EXCEPT ![q] =
           CASE r.stage = "unclaimed" -> Encoded(released, "refused")
             [] r.stage = "claimed" /\ arena.entry # "live" ->
                  Encoded(released, "secret_unavailable")
             [] OTHER -> [r EXCEPT !.stage = "running", !.handler = "running",
                                   !.epoch = arena.epoch]]
  /\ UNCHANGED <<limits, reserved, retained, custody, seen, term, arena, authority>>

-----------------------------------------------------------------------------
(* The handler and its secret. *)

Live(q) == req[q].stage = "running" /\ ~req[q].late

(* SealArena: a fault or a removal revokes; a put or a rotation of the value
   does not. *)
Revoked(a, entry) == [entry |-> entry, epoch |-> a.epoch + 1]

Revoke ==
  /\ arena.entry = "live" /\ arena.epoch < MaxEpoch
  /\ arena' = Revoked(arena, "gone")
  /\ UNCHANGED <<limits, req, reserved, retained, custody, seen, term, authority>>

Put ==
  /\ arena.entry = "gone"
  /\ arena' = [arena EXCEPT !.entry = "live"]
  /\ UNCHANGED <<limits, req, reserved, retained, custody, seen, term, authority>>

(* A provider need not be the arena.  Any call a release makes of it may
   revoke the secret, or revoke and replace it: the second epoch reading (1);
   use, up to the reading inside its callback (2); the rest of use, or has,
   after the lease was consumed (3). *)
NoStrike == [at |-> 4, entry |-> "live"]
Strikes == {NoStrike} \cup (IF arena.epoch < MaxEpoch
                            THEN [at : 1..3, entry : {"gone", "live"}] ELSE {})

(* And it may keep the contract; never call back, or with something that is
   not bytes; call back and then break the contract (throw, return a value,
   call back again); deny or change the secret in has; have no epoch to tell. *)
Providers == {"supplies", "skips", "breaks", "denies", "unreadable"}

(* The lease is minted at the epoch the request was admitted at, consumed
   inside the provider's use if the epoch has not moved, and the copy taken
   then is handed over if has still answers true and the deadline has not
   passed meanwhile.  A lease that was not consumed is dropped.  Every failure
   is latched, whatever the handler makes of it. *)
Release(q, provider, strike, slow, callback) ==
  LET at(i) == IF i >= strike.at THEN Revoked(arena, strike.entry) ELSE arena
      r == [req[q] EXCEPT !.spent = TRUE]
      failed == [r EXCEPT !.failed = TRUE]
      refused == [failed EXCEPT !.refusal = TRUE]
      unreadable == [failed EXCEPT !.unreadable = TRUE]
      delivered == [r EXCEPT !.delivered = TRUE, !.observed = at(2).epoch,
                             !.failed = callback # "returns"]
      moved == arena.epoch # r.epoch \/ at(1).epoch # r.epoch
      minted == Mint(authority, q, at(1).epoch)
      consumed == Consume(minted, q, at(2).epoch)
      unknown == MarkUnknown(consumed, q)
      becomes(r2, leases) == req' = [req EXCEPT ![q] = r2] /\ authority' = leases
  IN
  /\ arena' = at(3)
  /\ \/ /\ moved \/ MintRefused(authority, q) \/ provider = "unreadable"
        /\ becomes(refused, authority)
     \/ provider = "unreadable" /\ becomes(unreadable, authority)
     \/ /\ ~moved /\ ~MintRefused(authority, q)
        /\ \/ provider = "unreadable" /\ becomes(unreadable, Fence(minted, q))
           \/ provider = "skips" /\ becomes(failed, DropIfUnused(minted, q))
           \/ provider = "breaks" /\ becomes(failed, consumed)
           \/ /\ provider \in {"supplies", "denies"} /\ StateOf(consumed, q) = "fenced"
              /\ becomes(refused, consumed)
           \/ /\ provider \in {"supplies", "denies"} /\ StateOf(consumed, q) = "released"
              /\ provider = "denies" \/ at(3).entry # "live"
              /\ becomes(refused, unknown)
           \/ /\ provider = "supplies" /\ StateOf(consumed, q) = "released"
              /\ at(3).entry = "live"
              /\ \/ slow /\ becomes([r EXCEPT !.late = TRUE], consumed)
                 \/ ~slow /\ becomes(delivered, IF callback = "throws" THEN unknown ELSE consumed)

(* The first use of the accessor. *)
GetSecret(q) ==
  /\ Live(q) /\ ~req[q].failed /\ ~req[q].spent
  /\ \E provider \in Providers, strike \in Strikes, slow \in BOOLEAN,
        callback \in {"returns", "throws", "reenters"} :
       Release(q, provider, strike, slow, callback)
  /\ UNCHANGED <<limits, reserved, retained, custody, seen, term>>

(* The accessor is spent: another use is a failure. *)
GetSecretAgain(q) ==
  /\ Live(q) /\ req[q].spent /\ ~req[q].failed
  /\ req' = [req EXCEPT ![q].failed = TRUE]
  /\ UNCHANGED <<limits, reserved, retained, custody, seen, term, arena, authority>>

(* A callback that the provider kept refuses after use has returned, and fails
   the request up to the moment its outcome is sealed. *)
LateCallback(q) ==
  /\ req[q].spent /\ ~req[q].failed
  /\ \/ req[q].stage = "running"
     \/ req[q].stage = "encoded" /\ Rechecked(req[q].response)
  /\ req' = [req EXCEPT ![q].failed = TRUE]
  /\ UNCHANGED <<limits, reserved, retained, custody, seen, term, arena, authority>>

(* The handler's promise settles, in time or long after the answer. *)
HandlerSettles(q) ==
  /\ req[q].handler = "running"
  /\ \E end \in IF req[q].stage # "running" THEN {"over"}
                ELSE {"returned", "threw"} \cup (IF req[q].refusal THEN {"threw_refusal"} ELSE {}) :
       req' = [req EXCEPT ![q].handler = end]
  /\ UNCHANGED <<limits, reserved, retained, custody, seen, term, arena, authority>>

(* A handler that was given up keeps its slot until it settles. *)
ReleaseSlot(q) ==
  /\ req[q].slot /\ req[q].stage \in {"encoded", "answered"}
  /\ req[q].handler # "running"
  /\ req' = [req EXCEPT ![q].slot = FALSE]
  /\ UNCHANGED <<limits, reserved, retained, custody, seen, term, arena, authority>>

-----------------------------------------------------------------------------
(* The deadline, the outcome and its publication. *)

DeadlinePasses(q) ==
  /\ req[q].stage \in {"running", "encoded"} /\ req[q].handler # "none"
  /\ ~req[q].late
  /\ req' = [req EXCEPT ![q].late = TRUE]
  /\ UNCHANGED <<limits, reserved, retained, custody, seen, term, arena, authority>>

(* Mutant: an answer that is not a failure acknowledges the delivery. *)
NoteUnknown_OnFailure(q) ==
  IF req[q].spent /\ req[q].response # "success" THEN MarkUnknown(authority, q) ELSE authority

NoteUnknown(q) == IF req[q].spent THEN MarkUnknown(authority, q) ELSE authority

(* Mutant: the slot of a handler that was given up is free at once. *)
Conclude_FreesSlot(q) ==
  /\ req[q].stage = "running" /\ req[q].late
  /\ req' = [req EXCEPT ![q] =
       Encoded([req[q] EXCEPT !.slot = FALSE], "deadline_exceeded")]
  /\ authority' = NoteUnknown(q)
  /\ UNCHANGED <<limits, reserved, retained, custody, seen, term, arena>>

(* Mutant: the deadline is looked at when the handler has settled. *)
Conclude_AwaitsHandler(q) ==
  /\ req[q].stage = "running" /\ req[q].handler # "running"
  /\ req' = [req EXCEPT ![q] =
       Encoded([req[q] EXCEPT !.slot = FALSE],
               IF req[q].late THEN "deadline_exceeded"
               ELSE IF req[q].failed \/ req[q].handler # "returned"
               THEN "internal_error" ELSE "success")]
  /\ authority' = NoteUnknown(q)
  /\ UNCHANGED <<limits, reserved, retained, custody, seen, term, arena>>

(* The kernel stops waiting for the handler, which has settled or whose
   deadline timer fires.  Past the deadline the answer is
   504 whatever the handler did.  Encoding runs the handler's getters: it may
   fail, find the response too large, or outlast the deadline. *)
Conclude(q) ==
  LET r == req[q]
      released == [r EXCEPT !.slot = FALSE]
  IN
  /\ r.stage = "running"
  /\ r.handler # "running" \/ r.late
  /\ \/ /\ r.late
        /\ req' = [req EXCEPT ![q] = Encoded(r, "deadline_exceeded")]
        /\ authority' = NoteUnknown(q)
     \/ /\ ~r.late /\ (r.handler = "threw_refusal" \/ r.unreadable)
        /\ req' = [req EXCEPT ![q] = Encoded(released, "secret_unavailable")]
        /\ authority' = NoteUnknown(q)
     \/ /\ ~r.late /\ (r.handler = "threw" \/ r.failed)
        /\ r.handler # "threw_refusal" /\ ~r.unreadable
        /\ req' = [req EXCEPT ![q] = Encoded(released, "internal_error")]
        /\ authority' = NoteUnknown(q)
     \/ /\ ~r.late /\ r.handler = "returned" /\ ~r.failed
        /\ \/ /\ req' = [req EXCEPT ![q] = Encoded(released, "success")]
              /\ UNCHANGED authority
           \/ /\ \/ req' = [req EXCEPT ![q] = Encoded(released, "internal_error")]
                 \/ req' = [req EXCEPT ![q] =
                      Encoded([released EXCEPT !.late = TRUE], "deadline_exceeded")]
              /\ authority' = NoteUnknown(q)
  /\ UNCHANGED <<limits, reserved, retained, custody, seen, term, arena>>

(* Mutant: the outcome is published as it was encoded. *)
Publish_Unchecked(q) ==
  LET r == req[q] IN
  /\ r.stage = "encoded"
  /\ req' = [req EXCEPT ![q] =
       [NewRequest EXCEPT !.stage = "answered", !.response = r.response,
          !.key = r.key, !.claimTerm = r.claimTerm, !.delivered = r.delivered,
          !.handler = r.handler, !.slot = r.slot]]
  /\ reserved' = reserved \ {q}
  /\ retained' = retained \cup {[request |-> q, status |-> r.response]}
  /\ authority' = NoteUnknown(q)
  /\ UNCHANGED <<limits, custody, seen, term, arena>>

(* handle resumes: the outcome is arbitrated for the last time, its audit
   event takes the place of the reservation, and a spent lease ends.  Of the
   request only the handler that was given up remains. *)
Publish(q) ==
  LET r == req[q]
      response == CASE Rechecked(r.response) /\ r.failed -> "internal_error"
                    [] Rechecked(r.response) /\ ~r.failed /\ r.late -> "deadline_exceeded"
                    [] OTHER -> r.response
  IN
  /\ r.stage = "encoded"
  /\ req' = [req EXCEPT ![q] =
       [NewRequest EXCEPT !.stage = "answered", !.response = response,
          !.key = r.key, !.claimTerm = r.claimTerm, !.delivered = r.delivered,
          !.handler = Over(r.handler), !.slot = r.slot]]
  /\ reserved' = reserved \ {q}
  /\ retained' = retained \cup {[request |-> q, status |-> response]}
  /\ authority' = IF Rechecked(r.response) THEN NoteUnknown(q) ELSE authority
  /\ UNCHANGED <<limits, custody, seen, term, arena>>

Step(q) ==
  \/ \E key \in Keys : Arrive(q, key)
  \/ Claim(q) \/ Resume(q)
  \/ GetSecret(q) \/ GetSecretAgain(q) \/ LateCallback(q)
  \/ HandlerSettles(q) \/ ReleaseSlot(q) \/ DeadlinePasses(q) \/ Conclude(q) \/ Publish(q)

Next ==
  \/ \E q \in Requests : Step(q)
  \/ \E key \in Keys : KeyExpires(key)
  \/ Revoke \/ Put \/ TakeDrained

(* The store answers, the event loop runs what is due, and time passes.  A
   request takes each of these steps once at most, so one condition for all
   is as good as one for each.  Nothing is assumed of the handlers. *)
Progress(q) == Claim(q) \/ Resume(q) \/ DeadlinePasses(q) \/ Conclude(q) \/ Publish(q)

Fairness == \A q \in Requests : WF_vars(Progress(q))

Spec == Init /\ [][Next]_vars /\ Fairness

-----------------------------------------------------------------------------
(* Properties *)

Dispatched == {q \in Requests : req[q].handler # "none"}

(* The route's concurrency limit bounds the handlers that are really
   running, those the kernel has already answered 504 for included. *)
HandlersBounded ==
  Cardinality({q \in Requests : req[q].handler = "running"}) <= limits.maxConcurrent

(* A key admits one handler until it expires: what was claimed under the same
   term of a key is dispatched once, whatever became of the first. *)
DispatchedOncePerClaim ==
  \A p, q \in Dispatched :
    p # q /\ req[p].key = req[q].key => req[p].claimTerm # req[q].claimTerm

(* A success is published only for a handler that returned in time and never
   failed to get a secret, though it may have caught that failure. *)
SuccessIsHonest ==
  [][\A q \in Requests :
       req[q].stage # "answered" /\ req'[q].stage = "answered" /\ req'[q].response = "success" =>
         req[q].handler = "returned" /\ ~req[q].failed /\ ~req[q].late]_vars

Answered == {q \in Requests : req[q].stage = "answered"}

(* The audit trail is exact: every answer but that there is no room for one
   is recorded once, with the status that was returned; the sink never holds
   or promises more than its capacity; and no promise outlives its request. *)
AuditAccounts ==
  /\ retained \cap custody = {}
  /\ retained \cup custody =
       {[request |-> q, status |-> req[q].response] :
          q \in {p \in Answered : req[p].response # "audit_unavailable"}}
  /\ reserved = {q \in Requests : req[q].stage \notin {"new", "answered"}}
  /\ Cardinality(retained) + Cardinality(reserved) <= limits.auditCapacity

(* The copy that is handed over was taken at the epoch the request was admitted
   at, and it is handed over neither when the secret is gone nor after the
   deadline, wherever in the release a revocation or the deadline strikes.
   The epoch is read for the last time when the lease is consumed: a revocation
   after that which also replaces the secret, in the rest of the provider's use
   or in its has, is not noticed, and the copy taken before it is handed over. *)
SecretIsCurrent ==
  [][\A q \in Requests :
       ~req[q].delivered /\ req'[q].delivered =>
         /\ req'[q].observed = req[q].epoch
         /\ arena'.entry = "live" /\ ~req'[q].late]_vars

(* An answered request leaves no lease that is unused or merely released, and
   a secret was handed over only under a lease that was consumed. *)
LeasesSettle ==
  /\ \A i \in DOMAIN authority.leases :
       authority.leases[i].op \in Answered =>
         authority.leases[i].state \in {"fenced", "delivery-unknown"}
  /\ \A q \in Requests :
       req[q].delivered => StateOf(authority, q) \in {"released", "delivery-unknown", "missing"}

(* The kernel's comment: every spent lease ends delivery-unknown.  So until
   the request is answered the authority still knows a released lease. *)
DeliveryEndsUnknown ==
  \A q \in Requests \ Answered :
    req[q].delivered => StateOf(authority, q) \in {"released", "delivery-unknown"}

(* Every request is answered, whether or not its handler ever settles. *)
EveryRequestAnswered ==
  \A q \in Requests : []<>(req[q].stage \in {"new", "answered"})
=============================================================================
