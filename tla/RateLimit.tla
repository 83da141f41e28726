------------------------------ MODULE RateLimit ------------------------------
(***************************************************************************)
(* A rate limit on one key (apps/web lib rate-limit.ts) kept in Redis: the *)
(* commands of a hit are sent together but carried out one by one, between *)
(* those of others, and the pipeline may break off.  A clock counts time.  *)
(***************************************************************************)
EXTENDS Naturals

CONSTANTS Clients,    \* who hit the limit, each again after every answer
          Limit,      \* hits allowed in a window
          Window,     \* the window, in ticks
          MaxBroken,  \* pipelines that break off, in the model
          None

VARIABLES key,     \* the counter: count (0: there is none) and ttl (None: it does not expire)
          client,  \* what each client's hit is doing, the count it got, and its last answer
          broken   \* pipelines that broke off so far

vars == <<key, client, broken>>

NoKey == [count |-> 0, ttl |-> None]

Init ==
  /\ key = NoKey
  /\ client = [c \in Clients |-> [at |-> "incr", count |-> 0, answer |-> "none"]]
  /\ broken = 0

-----------------------------------------------------------------------------
\* UpstashStore.hit and consume.

\* INCR.  Counts above the limit are all alike.
Incr(c) ==
  LET count == IF key.count > Limit THEN key.count ELSE key.count + 1 IN
  /\ client[c].at = "incr"
  /\ key' = [key EXCEPT !.count = count]
  /\ client' = [client EXCEPT ![c].at = "expire", ![c].count = count]
  /\ UNCHANGED broken

\* (Mutant: every hit sets the expiry.)
ExpiryAlways == IF key = NoKey THEN NoKey ELSE [key EXCEPT !.ttl = Window]

\* EXPIRE NX: of a key that is there and has no expiry.
Expiry == IF key = NoKey \/ key.ttl # None THEN key ELSE [key EXCEPT !.ttl = Window]

Expire(c) ==
  /\ client[c].at = "expire"
  /\ key' = Expiry
  /\ client' = [client EXCEPT ![c].at = "ttl"]
  /\ UNCHANGED broken

\* TTL, which only says how long to wait, and the answer.
Answer(c) ==
  /\ client[c].at = "ttl"
  /\ client' = [client EXCEPT ![c].at = "incr",
                              ![c].answer = IF client[c].count <= Limit THEN "allowed" ELSE "denied"]
  /\ UNCHANGED <<key, broken>>

\* The rest of the pipeline is not carried out, or its answer is lost.
BreakOff(c) ==
  /\ client[c].at # "incr" /\ broken < MaxBroken
  /\ client' = [client EXCEPT ![c].at = "incr"]
  /\ broken' = broken + 1
  /\ UNCHANGED key

Tick ==
  /\ key.ttl # None
  /\ key' = IF key.ttl = 1 THEN NoKey ELSE [key EXCEPT !.ttl = @ - 1]
  /\ UNCHANGED <<client, broken>>

Hit(c) == Incr(c) \/ Expire(c) \/ Answer(c)
Next == Tick \/ \E c \in Clients : Hit(c) \/ BreakOff(c)

Spec == Init /\ [][Next]_vars

\* Time passes, and Redis answers.
Fairness == WF_vars(Tick) /\ \A c \in Clients : WF_vars(Hit(c))
FairSpec == Spec /\ Fairness

-----------------------------------------------------------------------------
\* Properties.

\* Every variable holds a value of its kind.
TypeOK ==
  /\ key \in [count : 0..(Limit + 1), ttl : (1..Window) \cup {None}]
  /\ client \in [Clients -> [at : {"incr", "expire", "ttl"}, count : 0..(Limit + 1),
                             answer : {"none", "allowed", "denied"}]]
  /\ broken \in 0..MaxBroken

\* Nobody is locked out: however often it is hit while it denies, and even if a pipeline broke off
\* before the expiry was set, the key allows hits again and again (UpstashStore.hit).
GetsThrough == []<>(\E c \in Clients : client[c].answer = "allowed")
=============================================================================
