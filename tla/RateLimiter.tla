---------------------------- MODULE RateLimiter ----------------------------
(***************************************************************************)
(* SlidingWindowRateLimiter (src/movieservice/inbound/ratelimit.py) as the *)
(* HTTP adapter uses it: every request that costs upstream calls is checked*)
(* against the hits its client has left in the window.  check does not     *)
(* await, so it is one step.                                               *)
(*                                                                         *)
(* The clock is time.time(), counted in ticks of a fraction of a second:   *)
(* the limiter compares exact times but answers in whole seconds.  A wall  *)
(* clock may also be set back.                                             *)
(***************************************************************************)
EXTENDS Integers, Sequences

CONSTANTS
    Clients,            \* client addresses
    MaxRequests,        \* RATE_LIMIT_MAX_REQUESTS: any integer from the environment
    WindowSeconds,      \* RATE_LIMIT_WINDOW_SECONDS
    TicksPerSecond      \* resolution of the clock

ASSUME LimiterAssumption ==
    /\ MaxRequests \in Int
    /\ WindowSeconds \in Int
    /\ TicksPerSecond \in Nat \ {0}

VARIABLES
    now,        \* time.time()
    hits,       \* self._hits
    admitted,   \* history: when each client was admitted
    refused,    \* history: the last refusal of each client since its last admission
    steady,     \* history: the clock has not been set back while anybody was remembered
    comeBack    \* history: the earliest time its refusals told it to wait for, plus a second

vars == <<now, hits, admitted, refused, steady, comeBack>>

Limit == IF MaxRequests > 1 THEN MaxRequests ELSE 1

Window == TicksPerSecond * (IF WindowSeconds > 1 THEN WindowSeconds ELSE 1)

Never == -1     \* no refusal since the last admission

TypeOK ==
    /\ now \in Nat
    /\ hits \in [Clients -> Seq(Nat)]
    /\ admitted \in [Clients -> Seq(Nat)]
    /\ refused \in [Clients -> Nat \cup {Never}]
    /\ steady \in BOOLEAN
    /\ comeBack \in [Clients -> Nat \cup {Never}]

Init ==
    /\ now = 0
    /\ hits = [c \in Clients |-> <<>>]
    /\ admitted = [c \in Clients |-> <<>>]
    /\ refused = [c \in Clients |-> Never]
    /\ steady = TRUE
    /\ comeBack = [c \in Clients |-> Never]

-----------------------------------------------------------------------------
\* Mutant of Expired: a hit is kept for the last instant of its window.
ExpiredLate(hit) == hit < now - Window

Expired(hit) == hit <= now - Window

\* The hits that remain when the oldest are popped until one has not expired.
InWindow(c) ==
    LET live == {i \in 1..Len(hits[c]) : ~Expired(hits[c][i])}
    IN  IF live = {} THEN <<>>
        ELSE SubSeq(hits[c], CHOOSE i \in live : \A j \in live : i <= j, Len(hits[c]))

\* Retry-After, in whole seconds: the rest of the oldest hit's window, truncated.
RetryAfter(c) ==
    LET rest == (Window - (now - InWindow(c)[1])) \div TicksPerSecond
    IN  IF rest > 1 THEN rest ELSE 1

Admitted(c) ==
    /\ admitted' = [admitted EXCEPT ![c] = Append(@, now)]
    /\ refused' = [refused EXCEPT ![c] = Never]
    /\ comeBack' = [comeBack EXCEPT ![c] = Never]
    /\ UNCHANGED <<now, steady>>

\* Mutants of Admit: one hit too many, and the start of the window recorded.
AdmitOneMore(c) ==
    /\ Len(InWindow(c)) <= Limit
    /\ hits' = [hits EXCEPT ![c] = Append(InWindow(c), now)]
    /\ Admitted(c)

AdmitAtWindowStart(c) ==
    /\ Len(InWindow(c)) < Limit
    /\ hits' = [hits EXCEPT ![c] = Append(InWindow(c), now - Window)]
    /\ Admitted(c)

Admit(c) ==
    /\ Len(InWindow(c)) < Limit
    /\ hits' = [hits EXCEPT ![c] = Append(InWindow(c), now)]
    /\ Admitted(c)

\* What the client is told, with a second more for what the truncation leaves out.
Refused(c) ==
    LET told == now + TicksPerSecond * (RetryAfter(c) + 1)
    IN  /\ refused' = [refused EXCEPT ![c] = now]
        /\ comeBack' = [comeBack EXCEPT ![c] = IF @ # Never /\ @ < told THEN @ ELSE told]
        /\ UNCHANGED <<now, admitted, steady>>

\* Mutant of Refuse: refused requests count against the client as well.
RefuseAndRecord(c) ==
    /\ Len(InWindow(c)) >= Limit
    /\ hits' = [hits EXCEPT ![c] = Append(InWindow(c), now)]
    /\ Refused(c)

Refuse(c) ==
    /\ Len(InWindow(c)) >= Limit
    /\ hits' = [hits EXCEPT ![c] = InWindow(c)]
    /\ Refused(c)

Check(c) == Admit(c) \/ Refuse(c)

\* clear() forgets everybody.
Clear ==
    /\ hits' = [c \in Clients |-> <<>>]
    /\ admitted' = [c \in Clients |-> <<>>]
    /\ refused' = [c \in Clients |-> Never]
    /\ comeBack' = [c \in Clients |-> Never]
    /\ steady' = TRUE
    /\ UNCHANGED now

Tick == now' = now + 1 /\ UNCHANGED <<hits, admitted, refused, steady, comeBack>>

\* Somebody adjusts the clock of the machine.
SetBack ==
    /\ now' \in 0..(now - 1)
    /\ steady' = FALSE
    /\ UNCHANGED <<hits, admitted, refused, comeBack>>

Next == (\E c \in Clients : Check(c)) \/ Clear \/ Tick \/ SetBack

Spec == Init /\ [][Next]_vars

-----------------------------------------------------------------------------
(***************************************************************************)
(* Properties.                                                             *)
(***************************************************************************)

\* A client gets no more than its quota through in any window, wherever the window
\* starts: hits dropped in one check are never missed by a later one.  This takes a
\* clock that is not set back: the deque is sorted only then.
QuotaHeld ==
    steady => \A c \in Clients : \A i \in 1..Len(admitted[c]) :
        i > Limit => admitted[c][i] - admitted[c][i - Limit] >= Window

\* Nobody is refused for what others did or for asking too often: a client that was
\* refused had used up its own quota within the window that ended then, also when the
\* clock was set back.
RefusalsEarned ==
    \A c \in Clients : refused[c] # Never =>
        LET n == Len(admitted[c])
        IN  n >= Limit /\ refused[c] - admitted[c][n - Limit + 1] < Window

\* A refused client that waits a second longer than Retry-After says is admitted,
\* however often it asked in between, and also when the clock was set back.
HintHonoured == \A c \in Clients : refused[c] # Never => refused[c] < comeBack[c]
=============================================================================
