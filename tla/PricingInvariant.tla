-------------------------- MODULE PricingInvariant --------------------------
(***************************************************************************)
(* The inductive invariant behind the properties of Pricing: the queue of  *)
(* Redis commands is in order and on time, every command in it belongs to  *)
(* the call that waits for it, and every call has spent the time that its  *)
(* attempts and sleeps take, and no more.                                  *)
(***************************************************************************)
EXTENDS Pricing, Functions

Sets == {"setFresh", "setLast"}

\* The sleeps before attempt k, and the latest that the attempt may end, in time
\* since the start of the call.
Slept(k) == Backoff * ((k * (k + 1)) \div 2)
Deadline(k) == RedisTime + (k + 1) * Timeout + Slept(k)

-----------------------------------------------------------------------------
\* A command waits no longer than Redis may take, and belongs to a call that
\* waits for it; only a SET may outlive its call.  A SET carries the timestamp
\* of the price, which is the instant the SET is sent.
CommandServed(m) ==
    LET r == call[m.caller] IN
    /\ m.sent <= now /\ now <= m.sent + RedisTime
    /\ m.name = "getFresh" => r.pc = "getFresh" /\ m.sent = r.startedAt
    /\ m.name = "getLast" => r.pc = "getLast" /\ m.sent - r.startedAt <= Deadline(MaxRetries)
    /\ m.name \in Sets => /\ m.price = m.sent
                          /\ r.pc = "done" \/ (r.pc = "set" /\ r.price = m.price)

\* Oldest first, and no caller has two commands of one name.
Ordered(q) ==
    \A i, j \in DOMAIN q :
        /\ i < j => q[i].sent <= q[j].sent
        /\ q[i].caller = q[j].caller /\ q[i].name = q[j].name => i = j

\* Who waits for Redis has a command there.
Waiting == Range(commands)
Queued(c, name) == \E m \in Waiting : m.caller = c /\ m.name = name
Awaits(c) ==
    /\ call[c].pc = "getFresh" => Queued(c, "getFresh")
    /\ call[c].pc = "getLast" => Queued(c, "getLast")
    /\ call[c].pc = "set" => /\ call[c].unset \in {1, 2}
                             /\ \E name \in Sets : Queued(c, name)
                             /\ call[c].unset = 2 => \A name \in Sets : Queued(c, name)

\* How long a call has taken: its timer is not overdue, and each attempt comes
\* after the sleeps before it and ends by its deadline.
Punctual(c) ==
    LET r == call[c] IN
    /\ r.pc = "getFresh" => r.attempt = 0
    /\ r.pc = "fetch" => /\ now <= r.timer
                         /\ now - r.startedAt >= Slept(r.attempt)
                         /\ r.timer - r.startedAt <= Deadline(r.attempt)
    /\ r.pc = "backoff" => /\ now <= r.timer
                           /\ r.attempt < MaxRetries
                           /\ r.timer - r.startedAt >= Slept(r.attempt + 1)
                           /\ r.timer - r.startedAt <= Deadline(r.attempt + 1) - Timeout
    /\ r.pc = "getLast" => /\ r.attempt = MaxRetries
                           /\ now - r.startedAt >= Slept(MaxRetries)
    /\ r.pc = "set" => r.price - r.startedAt <= Deadline(MaxRetries)

\* Nothing is answered before the end, and the answer is worth what it says.
Honest(c) ==
    LET r == call[c] IN
    /\ r.pc = "idle" => r = NotCalled
    /\ r.pc \notin {"set", "done"} => r.price = 0
    /\ r.pc # "done" => r.outcome = "none" /\ ~ r.stale /\ r.answeredAt = 0
    /\ r.pc = "done" =>
          /\ r.answeredAt - r.startedAt <= Deadline(MaxRetries) + RedisTime
          /\ \/ /\ r.outcome = "price" /\ r.price <= r.answeredAt
                /\ Age(c) <= (IF r.stale THEN LastKnownTtl ELSE FreshTtl) + RedisTime
             \/ r.outcome = "error" /\ r.price = 0 /\ ~ r.stale
          /\ r.stale \/ r.outcome = "error" =>
                r.attempt = MaxRetries /\ r.answeredAt - r.startedAt >= Slept(MaxRetries)

CallInv(c) == Awaits(c) /\ Punctual(c) /\ Honest(c)

\* A key expires within its lifetime of the price, give or take the way to Redis;
\* while a SET of the key is on its way, one is that is no older than the key.
KeyInv(name, entry, ttl) ==
    /\ entry.price <= now
    /\ entry.until <= entry.price + ttl + RedisTime
    /\ (\E m \in Waiting : m.name = name) => \E m \in Waiting : m.name = name /\ m.price >= entry.price

\* What holds between any two steps of the calls, Redis and Binance; it is inductive.
PricingInv ==
    /\ TypeOK
    /\ Ordered(commands)
    /\ \A m \in Waiting : CommandServed(m)
    /\ \A c \in Callers : CallInv(c)
    /\ KeyInv("setFresh", fresh, FreshTtl)
    /\ KeyInv("setLast", lastKnown, LastKnownTtl)
=============================================================================
