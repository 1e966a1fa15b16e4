------------------------------ MODULE LoginLimiter ------------------------------
(***************************************************************************)
(* The login rate limiter (api/server.py RateLimiter) as the login route   *)
(* (api/routes.py login) uses it: an attempt is admitted before the slow   *)
(* password check, on a thread of its own, and a login that succeeds       *)
(* forgets its client's attempts, those still under way included.          *)
(***************************************************************************)
EXTENDS Naturals, Sequences, FiniteSets, SequencesExt

CONSTANTS
    LimClient,  \* client addresses
    LimLimit,   \* login_attempts
    LimWindow,  \* window_seconds
    LimTable,   \* entries above which the table is pruned (2048)
    LimThreads  \* admitted attempts of a client under way at once (bound)

ASSUME LimAssumption ==
    /\ {LimLimit, LimWindow} \subseteq Nat \ {0}
    /\ {LimTable, LimThreads} \subseteq Nat
    /\ IsFiniteSet(LimClient)

VARIABLES
    limHits,    \* _hits: per client the ages of its stamps, oldest first (none: no entry)
    limBusy,    \* per client, admitted attempts whose password is being checked
    limTried,   \* history: ages of the admitted attempts of the last window since a login
    limAnswer   \* history: whose attempt was just answered, and how

limVars == <<limHits, limBusy, limTried, limAnswer>>

Quiet == [by |-> "nobody", answer |-> "none"]

\* The stamps with now - stamp < self._window, in their order.
Fresh(ages) ==
    LET kept[n \in 0 .. Len(ages)] ==
          IF n = 0 THEN <<>>
          ELSE IF ages[n] < LimWindow THEN Append(kept[n - 1], ages[n]) ELSE kept[n - 1]
    IN  kept[Len(ages)]

-----------------------------------------------------------------------------
\* The table once it has grown: entries whose last hit is old are dropped.
Prune_FirstHit(hits) ==
    IF Cardinality({c \in LimClient : hits[c] # <<>>}) > LimTable
    THEN [c \in LimClient |->
            IF hits[c] # <<>> /\ Head(hits[c]) < LimWindow THEN hits[c] ELSE <<>>]
    ELSE hits
Prune(hits) ==
    IF Cardinality({c \in LimClient : hits[c] # <<>>}) > LimTable
    THEN [c \in LimClient |->
            IF hits[c] # <<>> /\ Last(hits[c]) < LimWindow THEN hits[c] ELSE <<>>]
    ELSE hits

\* allow(key), for an attempt that is admitted and one that is not.
LimAdmit_OneTooMany(c) ==
    /\ limBusy[c] < LimThreads
    /\ Len(Fresh(limHits[c])) <= LimLimit
    /\ limHits' = Prune([limHits EXCEPT ![c] = Append(Fresh(limHits[c]), 0)])
    /\ limBusy' = [limBusy EXCEPT ![c] = @ + 1]
    /\ limTried' = [limTried EXCEPT ![c] = Append(@, 0)]
    /\ limAnswer' = [by |-> c, answer |-> "admitted"]
LimAdmit(c) ==
    /\ limBusy[c] < LimThreads
    /\ Len(Fresh(limHits[c])) < LimLimit
    /\ limHits' = Prune([limHits EXCEPT ![c] = Append(Fresh(limHits[c]), 0)])
    /\ limBusy' = [limBusy EXCEPT ![c] = @ + 1]
    /\ limTried' = [limTried EXCEPT ![c] = Append(@, 0)]
    /\ limAnswer' = [by |-> c, answer |-> "admitted"]

LimRefuse(c) ==
    /\ Len(Fresh(limHits[c])) >= LimLimit
    /\ limHits' = [limHits EXCEPT ![c] = Fresh(limHits[c])]
    /\ limAnswer' = [by |-> c, answer |-> "refused"]
    /\ UNCHANGED <<limBusy, limTried>>

\* authenticate() has answered: reset(key) after a success.
LimChecked(c) ==
    /\ limBusy[c] > 0
    /\ limBusy' = [limBusy EXCEPT ![c] = @ - 1]
    /\ \/ UNCHANGED <<limHits, limTried>>
       \/ /\ limHits' = [limHits EXCEPT ![c] = <<>>]
          /\ limTried' = [limTried EXCEPT ![c] = <<>>]
    /\ limAnswer' = Quiet

LimTick ==
    LET Aged(ages) == [i \in DOMAIN ages |-> IF ages[i] < LimWindow THEN ages[i] + 1 ELSE LimWindow]
    IN  /\ limHits' = [c \in LimClient |-> Aged(limHits[c])]
        /\ limTried' = [c \in LimClient |-> Fresh(Aged(limTried[c]))]
        /\ limAnswer' = Quiet
        /\ UNCHANGED limBusy

LimInit ==
    /\ limHits = [c \in LimClient |-> <<>>]
    /\ limBusy = [c \in LimClient |-> 0]
    /\ limTried = [c \in LimClient |-> <<>>]
    /\ limAnswer = Quiet

LimNext == LimTick \/ \E c \in LimClient : LimAdmit(c) \/ LimRefuse(c) \/ LimChecked(c)

LimSpec == LimInit /\ [][LimNext]_limVars

-----------------------------------------------------------------------------
\* Every variable has its type.
LimTypeOK ==
    /\ \A c \in LimClient : /\ Len(limHits[c]) <= LimLimit
                            /\ Range(limHits[c]) \subseteq 0 .. LimWindow
    /\ limBusy \in [LimClient -> 0 .. LimThreads]
    /\ \A c \in LimClient : Range(limTried[c]) \subseteq 0 .. LimWindow - 1
    /\ limAnswer.answer \in {"none", "admitted", "refused"}

\* Between two successful logins a client is never admitted more than `limit` times
\* in any window's length, whatever pruning and the others do; and it is refused only
\* when it has been admitted that often, so refused attempts do not prolong its wait
\* (RateLimiter.allow, which slides although its docstring says fixed window).
LimGuessesAreRationed ==
    \A c \in LimClient :
        /\ Len(limTried[c]) <= LimLimit
        /\ limAnswer = [by |-> c, answer |-> "refused"] => Len(limTried[c]) = LimLimit

\* The limiter answers every attempt as the ideal window would, although its table
\* keeps stale stamps, is pruned by an entry's last stamp alone, and is shared by all
\* clients (RateLimiter.allow, reset).
Ideal == INSTANCE SlidingWindow
            WITH Client <- LimClient, Limit <- LimLimit, Window <- LimWindow,
                 recent <- limTried, answer <- limAnswer

LimAnswersAsIdeal == Ideal!Spec
=============================================================================
